---- MODULE Spec2Model ----
(***************************************************************************)
(* Model of src/ORCA_NBO_parsers/extract_EFG_hydrides.py: the line scanner *)
(* extract_raw_efg_matrices, the orientation resolver                      *)
(* get_canonical_orientation and the driver                                *)
(* process_hydride_orientations_csv.                                       *)
(*                                                                         *)
(* Numbers are fixed point.  A float token of a file is a record           *)
(* [neg, ip, fp] (sign, integer digits, one fractional digit) and Float    *)
(* converts it to an integer count of tenths.  Vectors of the orientation  *)
(* resolver are integer triples in units of 1/3, so that the unit vectors  *)
(* (1,2,2)/3, (2,1,-2)/3, (2,-2,1)/3 are representable next to the axes.   *)
(***************************************************************************)
EXTENDS Integers, Sequences, FiniteSets, TLC

\* ------------------------------------------------------------------------
\* Bounds of the model
\* ------------------------------------------------------------------------

\* Longest file (in lines) the scanner is run on.
MaxLen == 7

\* ------------------------------------------------------------------------
\* Lines of an ORCA output file, as the three tests of the scanner see them
\* ------------------------------------------------------------------------

\* Python's None as a nucleus index (current_nucleus = None).
None == -1

\* Python's None as a matrix (raw_efg_matrices.get of a missing key).
NoMatrix == <<>>

\* Nucleus indices that occur in markers "Nucleus <n>H".
NucIds == {0, 1}

\* A float token matched by the pattern [-]?\d+\.\d+ .
Tok(neg, ip, fp) == [neg |-> neg, ip |-> ip, fp |-> fp]

\* float(v) of a matched token, in tenths.
Float(v) == (IF v.neg THEN -1 ELSE 1) * (10 * v.ip + v.fp)

\* A line: nuc is the index captured by re.search(r'Nucleus\s+(\d+)H', line)
\* (None when the search fails), raw is ('Raw EFG matrix' in line), toks is
\* re.findall(r'([-]?\d+\.\d+)', line).
Line(nuc, raw, toks) == [nuc |-> nuc, raw |-> raw, toks |-> toks]

\* "1.0 0.0 -2.5" and "0.5 3.0 0.0": two printed matrix rows.
RowA == <<Tok(FALSE, 1, 0), Tok(FALSE, 0, 0), Tok(TRUE, 2, 5)>>
RowB == <<Tok(FALSE, 0, 5), Tok(FALSE, 3, 0), Tok(FALSE, 0, 0)>>
\* A line with two float tokens, as in "I= 0.5 P=533.5".
Junk == <<Tok(FALSE, 0, 5), Tok(FALSE, 533, 5)>>

MarkerLines == {Line(n, FALSE, <<>>) : n \in NucIds}
RawLine == Line(None, TRUE, <<>>)
NumLines == {Line(None, FALSE, t) : t \in {RowA, RowB, Junk}}

\* The lines a file is made of.
Lines == MarkerLines \cup {RawLine} \cup NumLines

VARIABLES
    content,            \* lines of the file read so far by the for loop
    raw_efg_matrices,   \* dict nucleus index -> 3x3 matrix
    current_nucleus,    \* index of the last marker, or None
    efg_section,        \* inside a "Raw EFG matrix" block
    efg_matrix_lines,   \* rows collected in the open block
    raw_efg_matrix,     \* argument of get_canonical_orientation
    eigvals,            \* eigenvalues returned by np.linalg.eigh
    eigvecs,            \* eigenvectors returned by np.linalg.eigh, by column
    orientation,        \* dict returned by get_canonical_orientation
    opc,                \* "call" before, "return" after get_canonical_orientation
    input_data,         \* rows of the input table (pd.read_csv)
    folder,             \* the ORCA folder: file name -> file
    idx,                \* number of rows the loop of the driver has consumed
    output_data,        \* the output table being filled
    entry_orientations, \* per row and hydride column, the pieces of each entry
    calls,              \* calls of the extractor and the resolver, by row
    dpc,                \* "loop", "written" or "raised"
    csv,                \* the table written by to_csv, <<>> before
    format_input,       \* argument of format_orientation_output
    formatted,          \* string returned by format_orientation_output
    fpc,                \* "call" before, "return" after format_orientation_output
    returned,           \* per call of the extractor so far: its file and its map
    consumed,           \* per returned map: the matrices the driver looked up in it
    spc,                \* "between" or "scanning": where the run over the files is
    ref_std,            \* argument ref_std of extract_chem_shift_matrix_ORCA
    ref_bea,            \* argument ref_bea of extract_chem_shift_matrix_ORCA
    out_files,          \* the *.out files glob returns, in its order
    fi,                 \* number of files the loop has consumed
    records,            \* list of records built so far
    cpc,                \* "loop" or "written"
    efg_values,         \* dict nucleus index -> (e**2qQ, eta) of extract_eqQ_and_eta_values
    current_eqQ,        \* <<>> for None, or <<v>>: the last e**2qQ of the current nucleus
    df_in,              \* the table read by process_hydride_csv
    df_out,             \* its copy, filled row by row
    include_eta,        \* argument include_eta of process_hydride_csv
    ppc,                \* process_hydride_csv: "loop", "written" or "raised"
    efg_csv,            \* the table written by process_hydride_csv, <<>> before
    matrix,             \* argument matrix of extract_best_mode_for_atom, by rows
    freqs,              \* argument freqs of extract_best_mode_for_atom
    atom_number,        \* argument atom_number of extract_best_mode_for_atom
    sorted_idx,         \* mode indices by descending amplitude (line 162)
    best,               \* the frequency returned by extract_best_mode_for_atom
    bpc,                \* "call" before, "return" after extract_best_mode_for_atom
    input_csv,          \* the rows of the table the frequency script reads
    csv_rows,           \* the list rows of the frequency script (line 221)
    out_folder,         \* the files of the folder data_FQ: name -> file
    ri,                 \* number of rows the loop of the script has consumed
    vib_csv,            \* the table written by the script, <<>> before
    vpc                 \* the frequency script: "loop", "written" or "exited"

scanVars == <<content, raw_efg_matrices, current_nucleus, efg_section, efg_matrix_lines>>

orientVars == <<raw_efg_matrix, eigvals, eigvecs, orientation, opc>>

driverVars == <<input_data, folder, idx, output_data, entry_orientations, calls, dpc, csv>>

formatVars == <<format_input, formatted, fpc>>

filesVars == <<returned, consumed, spc>>

chemVars == <<ref_std, ref_bea, out_files, fi, records, cpc>>

eqVars == <<efg_values, current_eqQ>>

\* The variables of the scalar pass and of the frequency script.
scalarVars == <<df_in, df_out, include_eta, ppc, efg_csv>>

bestVars == <<matrix, freqs, atom_number, sorted_idx, best, bpc>>

vibVars == <<input_csv, csv_rows, out_folder, ri, vib_csv, vpc>>

\* The variables of the frequency script extract_hydrid_FQ.py.
fqVars == <<bestVars, vibVars>>

moreVars == <<eqVars, scalarVars, fqVars>>

\* The variables of the functions modelled further down.
extraVars == <<formatVars, filesVars, chemVars, moreVars>>

vars == <<scanVars, orientVars, driverVars, extraVars>>

\* No call of format_orientation_output is in progress.
IdleFormat == format_input = <<>> /\ formatted = "" /\ fpc = "idle"

\* No run over several files is in progress.
IdleFiles == returned = <<>> /\ consumed = <<>> /\ spc = "idle"

\* extract_chem_shift_matrix_ORCA is not running.
IdleChem ==
    /\ ref_std = <<>> /\ ref_bea = <<>> /\ out_files = <<>>
    /\ fi = 0 /\ records = <<>> /\ cpc = "idle"

\* State of extract_eqQ_and_eta_values before its first line (lines 39-41).
InitEq == efg_values = [k \in {} |-> 0] /\ current_eqQ = <<>>

\* process_hydride_csv is not running.
IdleScalar ==
    /\ df_in = <<>> /\ df_out = <<>> /\ include_eta = FALSE
    /\ ppc = "idle" /\ efg_csv = <<>>

\* No call of extract_best_mode_for_atom is in progress.
IdleBest ==
    /\ matrix = <<>> /\ freqs = <<>> /\ atom_number = 0
    /\ sorted_idx = <<>> /\ best = 0 /\ bpc = "idle"

\* The frequency script is not running.
IdleVib ==
    /\ input_csv = <<>> /\ csv_rows = <<>> /\ out_folder = <<>> /\ ri = 0
    /\ vib_csv = <<>> /\ vpc = "idle"

IdleFq == IdleBest /\ IdleVib

IdleMore == InitEq /\ IdleScalar /\ IdleFq

IdleExtra == IdleFormat /\ IdleFiles /\ IdleChem /\ IdleMore

\* ------------------------------------------------------------------------
\* extract_raw_efg_matrices
\* ------------------------------------------------------------------------

\* min(S) of a non-empty set of integers.
Min(S) == CHOOSE x \in S : \A y \in S : x <= y

\* The empty dict.
EmptyDict == [k \in {} |-> 0]

\* Mutant of DictSet: an existing entry is kept (d.setdefault(k, v)).
DictSetOnce(d, k, v) == [x \in (DOMAIN d) \cup {k} |-> IF x \in DOMAIN d THEN d[x] ELSE v]

\* d[k] = v on a dict.
DictSet(d, k, v) == [x \in (DOMAIN d) \cup {k} |-> IF x = k THEN v ELSE d[x]]

\* Mutant of FloatRow: the tokens of a line are stored in reverse order.
FloatRowReversed(toks) == [j \in 1..Len(toks) |-> Float(toks[Len(toks) + 1 - j])]

\* [float(v) for v in values_match]
FloatRow(toks) == [j \in 1..Len(toks) |-> Float(toks[j])]

\* Scanner state at a line boundary.
ScanState(m, n, s, l) == [matrices |-> m, nucleus |-> n, section |-> s, lines |-> l]

\* State before the first line (lines 209-212).
ScanInit == ScanState(EmptyDict, None, FALSE, <<>>)

\* Mutant of AfterMarker: the new index is taken only when no block is open
\* (the assignment of line 222 in an else branch).
AfterMarkerElse(st, line) ==
    IF line.nuc # None
    THEN IF st.section
         THEN [st EXCEPT !.section = FALSE, !.lines = <<>>]
         ELSE [st EXCEPT !.nucleus = line.nuc]
    ELSE st

\* Mutant of AfterMarker: an open block is stored as it is, under the old
\* index, instead of being abandoned.
AfterMarkerFlush(st, line) ==
    IF line.nuc # None
    THEN [st EXCEPT !.matrices = IF st.section
                                 THEN DictSet(st.matrices, st.nucleus, st.lines)
                                 ELSE st.matrices,
                    !.section = FALSE,
                    !.lines = IF st.section THEN <<>> ELSE st.lines,
                    !.nucleus = line.nuc]
    ELSE st

\* Lines 216-222: a nucleus marker abandons an open block and becomes current.
AfterMarker(st, line) ==
    IF line.nuc # None
    THEN [st EXCEPT !.section = FALSE,
                    !.lines = IF st.section THEN <<>> ELSE st.lines,
                    !.nucleus = line.nuc]
    ELSE st

\* Mutant of Collect: a line with another token count closes the block.
CollectStrict(st, line) ==
    IF st.section /\ Len(st.lines) < 3
    THEN IF Len(line.toks) = 3
         THEN LET rows == Append(st.lines, FloatRow(line.toks))
              IN  IF Len(rows) = 3
                  THEN ScanState(DictSet(st.matrices, st.nucleus, rows), None, FALSE, <<>>)
                  ELSE [st EXCEPT !.lines = rows]
         ELSE [st EXCEPT !.section = FALSE, !.lines = <<>>]
    ELSE st

\* Mutant of Collect: every line of an open block is converted and appended.
CollectAny(st, line) ==
    IF st.section /\ Len(st.lines) < 3
    THEN LET rows == Append(st.lines, FloatRow(line.toks))
         IN  IF Len(rows) = 3
             THEN ScanState(DictSet(st.matrices, st.nucleus, rows), None, FALSE, <<>>)
             ELSE [st EXCEPT !.lines = rows]
    ELSE st

\* Mutant of Collect: the block is stored and closed, but the nucleus stays
\* current after the third row.
CollectKeep(st, line) ==
    IF st.section /\ Len(st.lines) < 3
    THEN LET rows == IF Len(line.toks) = 3
                     THEN Append(st.lines, FloatRow(line.toks))
                     ELSE st.lines
         IN  IF Len(rows) = 3
             THEN ScanState(DictSet(st.matrices, st.nucleus, rows), st.nucleus, FALSE, <<>>)
             ELSE [st EXCEPT !.lines = rows]
    ELSE st

\* Lines 231-242: collect a three-token line, emit on the third.
Collect(st, line) ==
    IF st.section /\ Len(st.lines) < 3
    THEN LET rows == IF Len(line.toks) = 3
                     THEN Append(st.lines, FloatRow(line.toks))
                     ELSE st.lines
         IN  IF Len(rows) = 3
             THEN ScanState(DictSet(st.matrices, st.nucleus, rows), None, FALSE, <<>>)
             ELSE [st EXCEPT !.lines = rows]
    ELSE st

\* Mutant of ScanLine: the tensor marker opens a block whether or not a
\* nucleus is current.
ScanLineAnyRaw(st, line) ==
    LET s1 == AfterMarker(st, line)
    IN  IF line.raw
        THEN [s1 EXCEPT !.section = TRUE, !.lines = <<>>]
        ELSE Collect(s1, line)

\* Mutant of ScanLine: a tensor marker keeps the rows collected so far.
ScanLineKeepRows(st, line) ==
    LET s1 == AfterMarker(st, line)
    IN  IF s1.nucleus # None /\ line.raw
        THEN [s1 EXCEPT !.section = TRUE]
        ELSE Collect(s1, line)

\* One iteration of the for loop (lines 214-242).
ScanLine(st, line) ==
    LET s1 == AfterMarker(st, line)
    IN  IF s1.nucleus # None /\ line.raw
        THEN [s1 EXCEPT !.section = TRUE, !.lines = <<>>]
        ELSE Collect(s1, line)

RECURSIVE ScanFrom(_, _, _)
ScanFrom(st, lines, i) ==
    IF i > Len(lines) THEN st ELSE ScanFrom(ScanLine(st, lines[i]), lines, i + 1)

\* extract_raw_efg_matrices on a readable file with the given lines.
ExtractRawEfgMatrices(lines) == ScanFrom(ScanInit, lines, 1).matrices

ScanNow == ScanState(raw_efg_matrices, current_nucleus, efg_section, efg_matrix_lines)

InitScan ==
    /\ content = <<>>
    /\ raw_efg_matrices = ScanInit.matrices
    /\ current_nucleus = ScanInit.nucleus
    /\ efg_section = ScanInit.section
    /\ efg_matrix_lines = ScanInit.lines

\* The loop reads the next line of a file made of the lines L, at most n long.
ReadLineOf(L, n) ==
    /\ Len(content) < n
    /\ \E line \in L :
         LET st == ScanLine(ScanNow, line)
         IN  /\ content' = Append(content, line)
             /\ raw_efg_matrices' = st.matrices
             /\ current_nucleus' = st.nucleus
             /\ efg_section' = st.section
             /\ efg_matrix_lines' = st.lines

\* Files of up to MaxLen lines over all of Lines.
ReadLine == ReadLineOf(Lines, MaxLen) /\ UNCHANGED <<orientVars, driverVars, extraVars>>

\* Files of up to MaxLen + 1 lines without the two-token filler line.
ReadLineLong ==
    /\ ReadLineOf(Lines \ {Line(None, FALSE, Junk)}, MaxLen + 1)
    /\ UNCHANGED <<orientVars, driverVars, extraVars>>

\* ------------------------------------------------------------------------
\* get_canonical_orientation
\* ------------------------------------------------------------------------

\* Largest absolute eigenvalue of the matrices given to the resolver.
MaxEig == 5

Abs(x) == IF x < 0 THEN -x ELSE x

Dot(u, v) == u[1] * v[1] + u[2] * v[2] + u[3] * v[3]

Neg(u) == <<-u[1], -u[2], -u[3]>>

\* Product of a 3x3 matrix (a tuple of rows) and a vector.
MatVec(m, v) == <<Dot(m[1], v), Dot(m[2], v), Dot(m[3], v)>>

\* np.cross(u, v) of two vectors given in thirds, in thirds.
Cross(u, v) ==
    << (u[2] * v[3] - u[3] * v[2]) \div 3,
       (u[3] * v[1] - u[1] * v[3]) \div 3,
       (u[1] * v[2] - u[2] * v[1]) \div 3 >>

\* The two orthonormal bases, in thirds, whose signed and permuted columns the
\* eigensolver can return.
Axes == << <<3, 0, 0>>, <<0, 3, 0>>, <<0, 0, 3>> >>
Tilted == << <<1, 2, 2>>, <<2, 1, -2>>, <<2, -2, 1>> >>

Signs == {-1, 1}

Scaled(k, u) == <<k * u[1], k * u[2], k * u[3]>>

\* Every orthonormal frame made of the vectors of one basis, in any order and
\* with any signs.
Frames ==
    { << Scaled(sg[1], b[p[1]]), Scaled(sg[2], b[p[2]]), Scaled(sg[3], b[p[3]]) >> :
        sg \in [1..3 -> Signs],
        p \in {q \in [1..3 -> 1..3] : q[1] # q[2] /\ q[1] # q[3] /\ q[2] # q[3]},
        b \in {Axes, Tilted} }

\* The unit vectors of the frames.
UnitVectors == {f[i] : f \in Frames, i \in 1..3}

\* The lower triangle of m mirrored: what eigh reads of its argument.
Lower(m) ==
    << <<m[1][1], m[2][1], m[3][1]>>,
       <<m[2][1], m[2][2], m[3][2]>>,
       <<m[3][1], m[3][2], m[3][3]>> >>

\* v (in thirds) is an eigenvector of m; its eigenvalue is Dot(v, m v) / 9.
IsEigenvector(m, v) ==
    /\ Dot(v, MatVec(m, v)) % 9 = 0
    /\ Scaled(9, MatVec(m, v)) = Scaled(Dot(v, MatVec(m, v)), v)

Eigenvalue(m, v) == Dot(v, MatVec(m, v)) \div 9

\* np.linalg.eigh(m): every pair <<eigenvalues, eigenvectors>> it may return,
\* the eigenvalues ascending, column i an eigenvector of eigenvalue i of unit
\* length and of either sign.
Eigh(m) ==
    LET a == Lower(m)
        evs == {v \in UnitVectors : IsEigenvector(a, v)}
        val == [v \in evs |-> Eigenvalue(a, v)]
    IN  { << <<val[f[1]], val[f[2]], val[f[3]]>>, f >> :
            f \in { g \in Frames :
                      /\ \A i \in 1..3 : g[i] \in evs
                      /\ val[g[1]] <= val[g[2]]
                      /\ val[g[2]] <= val[g[3]] } }

\* Mutant of ArgMaxAbs: the greatest eigenvalue, not the greatest in absolute
\* value.
ArgMaxSigned(vals) ==
    Min({i \in 1..3 : \A j \in 1..3 : vals[j] <= vals[i]})

\* Mutant of ArgMaxAbs: the last index of a greatest absolute value.
ArgMaxAbsLast(vals) ==
    -Min({-i : i \in {k \in 1..3 : \A j \in 1..3 : Abs(vals[j]) <= Abs(vals[k])}})

\* np.argmax(np.abs(eigvals)): the first index of a greatest absolute value.
ArgMaxAbs(vals) ==
    Min({i \in 1..3 : \A j \in 1..3 : Abs(vals[j]) <= Abs(vals[i])})

\* Mutant of CanonicalOrientation: Y is the cross product of Z and v2.
CanonicalOrientationV2(vals, vecs) ==
    LET max_abs_idx == ArgMaxAbs(vals)
        first == Min((1..3) \ {max_abs_idx})
        second == Min((1..3) \ {max_abs_idx, first})
    IN  [X |-> vecs[first], Y |-> Cross(vecs[max_abs_idx], vecs[second]),
         Z |-> vecs[max_abs_idx]]

\* Mutant of CanonicalOrientation: Y is Z x X, never negated.
CanonicalOrientationNoFlip(vals, vecs) ==
    LET max_abs_idx == ArgMaxAbs(vals)
        first == Min((1..3) \ {max_abs_idx})
    IN  [X |-> vecs[first], Y |-> Cross(vecs[max_abs_idx], vecs[first]),
         Z |-> vecs[max_abs_idx]]

\* Steps 2-5 of get_canonical_orientation (lines 163-192).
CanonicalOrientation(vals, vecs) ==
    LET max_abs_idx == ArgMaxAbs(vals)
        z_axis == vecs[max_abs_idx]
        first == Min((1..3) \ {max_abs_idx})
        second == Min((1..3) \ {max_abs_idx, first})
        v1 == vecs[first]
        v2 == vecs[second]
        x_axis == v1
        y_cross == Cross(z_axis, x_axis)
        y_axis == IF Dot(y_cross, v2) < 0 THEN Neg(y_cross) ELSE y_cross
    IN  [X |-> x_axis, Y |-> y_axis, Z |-> z_axis]

\* The symmetric matrix with the eigenvalues d on the basis b (b in thirds:
\* on Tilted the eigenvalues are 9 d).
Compose(b, d) ==
    LET k == IF b = Axes THEN 9 ELSE 1
    IN  [r \in 1..3 |-> [c \in 1..3 |->
            (d[1] * b[1][r] * b[1][c] + d[2] * b[2][r] * b[2][c]
               + d[3] * b[3][r] * b[3][c]) \div k ]]

EigRange == (-MaxEig)..MaxEig

\* The matrices the resolver is called with.
InputMatrices ==
    { Compose(b, d) : b \in {Axes, Tilted}, d \in [1..3 -> EigRange] }

InitOrient ==
    /\ raw_efg_matrix \in InputMatrices \cup {NoMatrix}
    /\ eigvals = <<>>
    /\ eigvecs = <<>>
    /\ orientation = EmptyDict
    /\ opc = "call"

\* Lines 156-157: no matrix, empty dict.
OrientNone ==
    /\ opc = "call"
    /\ raw_efg_matrix = NoMatrix
    /\ orientation' = EmptyDict
    /\ opc' = "return"
    /\ UNCHANGED <<raw_efg_matrix, eigvals, eigvecs>>
    /\ UNCHANGED <<scanVars, driverVars, extraVars>>

\* Lines 160-192 with one of the decompositions the solver may return.
OrientMatrix ==
    /\ opc = "call"
    /\ raw_efg_matrix # NoMatrix
    /\ \E out \in Eigh(raw_efg_matrix) :
         /\ eigvals' = out[1]
         /\ eigvecs' = out[2]
         /\ orientation' = CanonicalOrientation(out[1], out[2])
    /\ opc' = "return"
    /\ UNCHANGED raw_efg_matrix
    /\ UNCHANGED <<scanVars, driverVars, extraVars>>

\* No call of the resolver is in progress.
IdleOrient ==
    /\ raw_efg_matrix = NoMatrix
    /\ eigvals = <<>>
    /\ eigvecs = <<>>
    /\ orientation = EmptyDict
    /\ opc = "idle"

\* ------------------------------------------------------------------------
\* Strings
\* ------------------------------------------------------------------------

\* sub in s
RECURSIVE Contains(_, _)
Contains(s, sub) ==
    IF Len(s) < Len(sub) THEN FALSE
    ELSE IF SubSeq(s, 1, Len(sub)) = sub THEN TRUE
    ELSE Contains(SubSeq(s, 2, Len(s)), sub)

\* s.replace(old, new)
RECURSIVE Replace(_, _, _)
Replace(s, old, new) ==
    IF Len(s) < Len(old) THEN s
    ELSE IF SubSeq(s, 1, Len(old)) = old
         THEN new \o Replace(SubSeq(s, Len(old) + 1, Len(s)), old, new)
         ELSE SubSeq(s, 1, 1) \o Replace(SubSeq(s, 2, Len(s)), old, new)

\* s.split(sep) for a separator of one character
RECURSIVE SplitFrom(_, _, _)
SplitFrom(s, sep, k) ==
    IF k > Len(s) THEN <<s>>
    ELSE IF SubSeq(s, k, k) = sep
         THEN <<SubSeq(s, 1, k - 1)>> \o SplitFrom(SubSeq(s, k + 1, Len(s)), sep, 1)
         ELSE SplitFrom(s, sep, k + 1)

Split(s, sep) == SplitFrom(s, sep, 1)

\* sep.join(parts)
RECURSIVE Join(_, _)
Join(parts, sep) ==
    IF Len(parts) = 0 THEN ""
    ELSE IF Len(parts) = 1 THEN parts[1]
    ELSE parts[1] \o sep \o Join(Tail(parts), sep)

Digit(c) ==
    CASE c = "0" -> 0 [] c = "1" -> 1 [] c = "2" -> 2 [] c = "3" -> 3 [] c = "4" -> 4
      [] c = "5" -> 5 [] c = "6" -> 6 [] c = "7" -> 7 [] c = "8" -> 8 [] c = "9" -> 9

\* int(s) of a string of decimal digits
RECURSIVE IntOf(_)
IntOf(s) ==
    IF Len(s) = 1 THEN Digit(s)
    ELSE 10 * IntOf(SubSeq(s, 1, Len(s) - 1)) + Digit(SubSeq(s, Len(s), Len(s)))

\* f'{val:.6f}' of a vector component given in thirds
Fixed6(t) ==
    CASE t = 0 -> "0.000000"
      [] t = 1 -> "0.333333"  [] t = -1 -> "-0.333333"
      [] t = 2 -> "0.666667"  [] t = -2 -> "-0.666667"
      [] t = 3 -> "1.000000"  [] t = -3 -> "-1.000000"

\* ------------------------------------------------------------------------
\* format_orientation_output and process_hydride_orientations_csv
\* ------------------------------------------------------------------------

\* Most rows of the input table.
MaxRows == 2

\* A missing value of the table (pd.isna).
NaN == "NaN"

Columns == <<"Filename", "Hydrides - mu1H", "H2_coord">>

\* Line 280: the columns whose name contains 'Hydrides'.
hydride_cols(in_row) == {col \in DOMAIN in_row : Contains(col, "Hydrides")}

OrientationCol(col) == col \o "_orientations"

\* Mutant of InitialCell: the new columns start as 'N/A'.
InitialCellNA == "N/A"

\* Line 282: the new columns start empty.
InitialCell == ""

\* Lines 276-282: the output table is a copy of the input table in which, for
\* every column whose name contains 'Hydrides', the column
\* '<col>_orientations' is set to the empty string: added when the input has
\* no column of that name, overwritten when it has one.
NewOutput(input) ==
    [r \in 1..Len(input) |->
        LET new == {OrientationCol(col) : col \in {c \in DOMAIN input[r] : Contains(c, "Hydrides")}}
        IN  [c \in (DOMAIN input[r]) \cup new |->
                IF c \in new THEN InitialCell ELSE input[r][c]]]

\* Line 289: the name of the ORCA output of a row.
OrcaFile(filename) == Replace(filename, ".xyz", "_input.inp.out")

\* Lines 257-263.
FormatVector(v) == Fixed6(v[1]) \o "," \o Fixed6(v[2]) \o "," \o Fixed6(v[3])

\* Mutant of FormatOrientationOutput: the vectors that are there are printed.
FormatOrientationOutputPartial(orientation_dict) ==
    IF DOMAIN orientation_dict = {} THEN "N/A"
    ELSE Join(SelectSeq(
                 [k \in 1..3 |->
                    LET key == <<"X", "Y", "Z">>[k]
                    IN  IF key \in DOMAIN orientation_dict
                        THEN key \o "(" \o FormatVector(orientation_dict[key]) \o ")"
                        ELSE ""],
                 LAMBDA t : t # ""), ";")

FormatOrientationOutput(orientation_dict) ==
    IF DOMAIN orientation_dict = {}
       \/ \E key \in {"X", "Y", "Z"} : key \notin DOMAIN orientation_dict
    THEN "N/A"
    ELSE "X(" \o FormatVector(orientation_dict["X"]) \o ");Y("
           \o FormatVector(orientation_dict["Y"]) \o ");Z("
           \o FormatVector(orientation_dict["Z"]) \o ")"

\* get_canonical_orientation as a function, eigh being the function solver.
GetCanonicalOrientation(raw_matrix, solver) ==
    IF raw_matrix = NoMatrix THEN EmptyDict
    ELSE CanonicalOrientation(solver[raw_matrix][1], solver[raw_matrix][2])

\* Mutant of Lookup: the index convention of process_hydride_csv, get(i-1).
LookupMinusOne(matrices, hydride_idx) ==
    IF (hydride_idx - 1) \in DOMAIN matrices THEN matrices[hydride_idx - 1] ELSE NoMatrix

\* Line 312: raw_efg_matrices.get(hydride_idx)
Lookup(matrices, hydride_idx) ==
    IF hydride_idx \in DOMAIN matrices THEN matrices[hydride_idx] ELSE NoMatrix

\* Lines 301-302.
Separator(cell) == IF Contains(cell, ";") THEN ";" ELSE ","

\* Lines 301 and 306: the non-empty entries of a cell.
Entries(cell) == SelectSeq(Split(cell, Separator(cell)), LAMBDA entry : entry # "")

\* Line 307.
Indices(entry) ==
    LET parts == Split(entry, ",") IN [k \in 1..Len(parts) |-> IntOf(parts[k])]

\* Lines 304-318: the list entry_orientations of every entry of a cell.
EntryOrientations(cell, matrices, solver) ==
    LET entries == Entries(cell)
        indices == [e \in 1..Len(entries) |-> Indices(entries[e])]
    IN  [e \in 1..Len(entries) |->
            [k \in 1..Len(indices[e]) |->
                FormatOrientationOutput(
                    GetCanonicalOrientation(Lookup(matrices, indices[e][k]), solver))]]

\* Mutant of CellText: the groups are joined by ',' whatever the cell holds.
CellTextComma(cell, pieces) ==
    Join([e \in 1..Len(pieces) |-> Join(pieces[e], ",")], ",")

\* Lines 320-324: the string stored in the new column.
CellText(cell, pieces) ==
    Join([e \in 1..Len(pieces) |-> Join(pieces[e], ",")], Separator(cell))

\* Every function that gives each matrix of ms one of the results of eigh.
RECURSIVE SolversOn(_)
SolversOn(ms) ==
    IF ms = {} THEN {EmptyDict}
    ELSE LET m == CHOOSE x \in ms : TRUE
         IN  {DictSet(f, m, out) : out \in Eigh(m), f \in SolversOn(ms \ {m})}

\* The solvers: eigh as a function on the matrices of a dict.
Solvers(matrices) == SolversOn({matrices[k] : k \in DOMAIN matrices})

\* Files of the ORCA folder.
NoFile == [exists |-> FALSE, readable |-> FALSE, lines |-> <<>>]
Unreadable == [exists |-> TRUE, readable |-> FALSE, lines |-> <<>>]
Readable(lines) == [exists |-> TRUE, readable |-> TRUE, lines |-> lines]

NumRow(a, b, c) == Line(None, FALSE, <<a, b, c>>)

\* "Nucleus 0H", "Raw EFG matrix", "1.0 0.0 0.0", "0.0 2.0 0.0", "0.0 0.0 -5.0".
FileH0 ==
    << Line(0, FALSE, <<>>), RawLine,
       NumRow(Tok(FALSE, 1, 0), Tok(FALSE, 0, 0), Tok(FALSE, 0, 0)),
       NumRow(Tok(FALSE, 0, 0), Tok(FALSE, 2, 0), Tok(FALSE, 0, 0)),
       NumRow(Tok(FALSE, 0, 0), Tok(FALSE, 0, 0), Tok(TRUE, 5, 0)) >>

\* A file without any nucleus marker.
FileNoMarker == << Line(None, FALSE, Junk) >>

Files == {NoFile, Unreadable, Readable(FileH0), Readable(FileNoMarker)}

Filenames == {"a.xyz", "b.xyz"}

\* The ORCA folders: any file or none for "a.xyz" and none for "b.xyz", or a
\* file for each.
Folders ==
    { [name \in {"a_input.inp.out", "b_input.inp.out"} |->
          IF name = "a_input.inp.out" THEN f ELSE NoFile] : f \in Files }
    \cup { [name \in {"a_input.inp.out", "b_input.inp.out"} |->
               IF name = "a_input.inp.out" THEN Readable(FileH0) ELSE Readable(FileNoMarker)],
           [name \in {"a_input.inp.out", "b_input.inp.out"} |->
               IF name = "a_input.inp.out" THEN Unreadable ELSE Readable(FileH0)] }

\* The cells of a hydride column.
Cells == {"1", "0,1", "0;1"}

Rows ==
    [ {Columns[k] : k \in 1..Len(Columns)} ->
        Filenames \cup Cells \cup {NaN, "7"} ]

\* The rows of the input table.
InputRows ==
    { row \in Rows :
        /\ row["Filename"] \in Filenames \cup {NaN}
        /\ row["Hydrides - mu1H"] \in Cells \cup {NaN}
        /\ row["H2_coord"] = "7" }

InitDriver ==
    /\ input_data \in UNION {[1..n -> InputRows] : n \in 0..MaxRows}
    /\ folder \in Folders
    /\ idx = 0
    /\ output_data = NewOutput(input_data)
    /\ entry_orientations = [r \in 1..Len(input_data) |-> EmptyDict]
    /\ calls = {}
    /\ dpc = "loop"
    /\ csv = <<>>

\* The row the loop is at (idx counts from 0).
row == input_data[idx + 1]

InLoop == dpc = "loop" /\ idx < Len(input_data)

\* Mutant of Continue: the loop is left (break).
Break(i) == Len(input_data)

\* continue: on to the next row.
Continue(i) == i + 1

\* Lines 285-287: no file name.
RowNoName ==
    /\ InLoop
    /\ row["Filename"] = NaN
    /\ idx' = Continue(idx)
    /\ UNCHANGED <<input_data, folder, output_data, entry_orientations, calls, dpc, csv>>
    /\ UNCHANGED <<scanVars, orientVars, extraVars>>

\* Lines 289-292: no ORCA output of that name, warning, next row.
RowNoFile ==
    /\ InLoop
    /\ row["Filename"] # NaN
    /\ ~folder[OrcaFile(row["Filename"])].exists
    /\ idx' = Continue(idx)
    /\ UNCHANGED <<input_data, folder, output_data, entry_orientations, calls, dpc, csv>>
    /\ UNCHANGED <<scanVars, orientVars, extraVars>>

\* Lines 295 and 206: the file exists and open() or readlines() raises; nothing
\* catches the exception and the function is left.
RowUnreadable ==
    /\ InLoop
    /\ row["Filename"] # NaN
    /\ folder[OrcaFile(row["Filename"])].exists
    /\ ~folder[OrcaFile(row["Filename"])].readable
    /\ calls' = calls \cup {[fn |-> "extract_raw_efg_matrices", row |-> idx]}
    /\ dpc' = "raised"
    /\ UNCHANGED <<input_data, folder, idx, output_data, entry_orientations, csv>>
    /\ UNCHANGED <<scanVars, orientVars, extraVars>>

DigitText(d) == SubSeq("0123456789", d + 1, d + 1)

\* A text made of decimal digits only.
IsIntText(s) ==
    /\ Len(s) > 0
    /\ \A k \in 1..Len(s) : \E d \in 0..9 : SubSeq(s, k, k) = DigitText(d)

\* pd.read_csv (lines 77 and 276) reads a column whose cells are all integers
\* or missing as a column of numbers, every other column as strings.
NumericColumn(df, col) ==
    \A r \in 1..Len(df) : df[r][col] = NaN \/ IsIntText(df[r][col])

\* A column of numbers with a missing cell is a column of floats: row[col] of
\* the cell 1 is 1.0 and str(row[col]) is "1.0".
FloatColumn(df, col) ==
    NumericColumn(df, col) /\ \E r \in 1..Len(df) : df[r][col] = NaN

\* Line 307: int() raises ValueError on the text of a float, "1.0".
FloatCell(df, r) ==
    \E col \in hydride_cols(df[r]) : df[r][col] # NaN /\ FloatColumn(df, col)

\* The hydride columns of a row that hold a value (line 298).
FilledCols(in_row) ==
    {col \in hydride_cols(in_row) : in_row[col] # NaN}

\* Lines 297-318: the lists entry_orientations of the filled cells of a row.
RowPieces(in_row, matrices, solver) ==
    [col \in FilledCols(in_row) |-> EntryOrientations(in_row[col], matrices, solver)]

\* Lines 320-324: the output row with the new columns of the filled cells set.
RowOutput(out_row, in_row, pieces) ==
    [c \in DOMAIN out_row |->
        IF \E col \in DOMAIN pieces : c = OrientationCol(col)
        THEN LET col == CHOOSE x \in DOMAIN pieces : c = OrientationCol(x)
             IN  CellText(in_row[col], pieces[col])
        ELSE out_row[c]]

Call(fn, i) == [fn |-> fn, row |-> i]

\* Lines 295-324: the row of a readable file.  In a column of floats line 307
\* raises and the function is left with its tables.
RowProcess ==
    /\ InLoop
    /\ row["Filename"] # NaN
    /\ folder[OrcaFile(row["Filename"])].readable
    /\ IF FloatCell(input_data, idx + 1)
       THEN /\ calls' = calls \cup {Call("extract_raw_efg_matrices", idx)}
            /\ dpc' = "raised"
            /\ UNCHANGED <<idx, output_data, entry_orientations>>
       ELSE /\ LET matrices == ExtractRawEfgMatrices(folder[OrcaFile(row["Filename"])].lines)
               IN  \E solver \in Solvers(matrices) :
                     LET pieces == RowPieces(row, matrices, solver)
                     IN  /\ entry_orientations' = [entry_orientations EXCEPT ![idx + 1] = pieces]
                         /\ output_data' =
                               [output_data EXCEPT ![idx + 1] = RowOutput(@, row, pieces)]
                         /\ calls' = calls
                               \cup {Call("extract_raw_efg_matrices", idx)}
                               \cup {Call("get_canonical_orientation", idx) :
                                       col \in {x \in DOMAIN pieces : Len(pieces[x]) > 0}}
            /\ idx' = idx + 1
            /\ dpc' = dpc
    /\ UNCHANGED <<input_data, folder, csv>>
    /\ UNCHANGED <<scanVars, orientVars, extraVars>>

\* Line 327: the loop is over, the table is written.
WriteCsv ==
    /\ dpc = "loop"
    /\ idx = Len(input_data)
    /\ csv' = output_data
    /\ dpc' = "written"
    /\ UNCHANGED <<input_data, folder, idx, output_data, entry_orientations, calls>>
    /\ UNCHANGED <<scanVars, orientVars, extraVars>>

\* The driver is not running.
IdleDriver ==
    /\ input_data = <<>>
    /\ folder = EmptyDict
    /\ idx = 0
    /\ output_data = <<>>
    /\ entry_orientations = <<>>
    /\ calls = {}
    /\ dpc = "idle"
    /\ csv = <<>>

Init == InitScan /\ IdleOrient /\ IdleDriver /\ IdleExtra


NextScan == ReadLine

NextScanLong == ReadLineLong

NextOrient == OrientNone \/ OrientMatrix

NextDriver == RowNoName \/ RowNoFile \/ RowUnreadable \/ RowProcess \/ WriteCsv

\* The scanner on every file of up to MaxLen lines.
SpecScan == Init /\ [][NextScan]_vars

\* The scanner on every filler-free file of up to MaxLen + 1 lines.
SpecScanLong == Init /\ [][NextScanLong]_vars

\* The resolver on every input matrix and on no matrix.
InitOrientSpec == InitScan /\ InitOrient /\ IdleDriver /\ IdleExtra

SpecOrient == InitOrientSpec /\ [][NextOrient]_vars

InitDriverSpec == InitScan /\ IdleOrient /\ InitDriver /\ IdleExtra

\* The driver on every table of up to MaxRows rows and every folder.
SpecDriver == InitDriverSpec /\ [][NextDriver]_vars

\* ------------------------------------------------------------------------
\* Reading a file as blocks, independently of the scanner
\* ------------------------------------------------------------------------

IsMarker(l) == l.nuc # None

\* A valid three-float line: exactly three float tokens on an ordinary line.
IsRow(l) == ~IsMarker(l) /\ ~l.raw /\ Len(l.toks) = 3

\* Last line of the segment of the marker at i: the line before the next marker.
SegEnd(c, i) == Min({k \in (i + 1)..Len(c) : IsMarker(c[k])} \cup {Len(c) + 1}) - 1

\* Valid rows that follow the tensor marker at j before the next tensor marker
\* and before the line after e.
RowsAfter(c, j, e) ==
    LET stop == Min({k \in (j + 1)..e : c[k].raw} \cup {e + 1}) - 1
    IN  {k \in (j + 1)..stop : IsRow(c[k])}

\* The marker at i has a complete block: a tensor marker in its segment that is
\* followed by three valid rows before any further marker of either kind.
HasCompleteBlock(c, i) ==
    \E j \in i..SegEnd(c, i) : c[j].raw /\ Cardinality(RowsAfter(c, j, SegEnd(c, i))) >= 3

\* The printed rows k1 < k2 < k3 as a matrix: row i is line k_i, column j its
\* j-th token.
MatrixOf(c, ks) ==
    LET k1 == Min(ks)
        k2 == Min(ks \ {k1})
        k3 == Min(ks \ {k1, k2})
    IN  << [j \in 1..3 |-> Float(c[k1].toks[j])],
           [j \in 1..3 |-> Float(c[k2].toks[j])],
           [j \in 1..3 |-> Float(c[k3].toks[j])] >>

\* The plain block of the marker at i: its segment holds one tensor marker,
\* after the marker line, and at least three valid rows follow it; the block
\* is made of the first three.  <<>> when the segment has another shape.
PlainBlock(c, i) ==
    LET e == SegEnd(c, i)
        raws == {j \in i..e : c[j].raw}
    IN  IF Cardinality(raws) = 1 /\ ~c[i].raw
        THEN LET ks == {k \in (Min(raws) + 1)..e : IsRow(c[k])}
             IN  IF Cardinality(ks) >= 3 THEN MatrixOf(c, ks) ELSE <<>>
        ELSE <<>>

Markers(c, n) == {i \in 1..Len(c) : c[i].nuc = n}

\* ------------------------------------------------------------------------
\* Claims about extract_raw_efg_matrices
\* ------------------------------------------------------------------------

\* A marker at i whose block is abandoned at the marker at k: a different
\* index, a tensor marker and fewer than three valid rows in between, and no
\* other marker of the index of i in the file.
Abandoned(c, i, k) ==
    /\ i < k
    /\ IsMarker(c[i]) /\ IsMarker(c[k]) /\ c[i].nuc # c[k].nuc
    /\ SegEnd(c, i) = k - 1
    /\ \E j \in (i + 1)..(k - 1) : c[j].raw
    /\ Cardinality({j \in (i + 1)..(k - 1) : IsRow(c[j])}) < 3
    /\ Markers(c, c[i].nuc) = {i}

\* C1: block isolation.  When a marker a is followed by a tensor marker and
\* fewer than three valid rows and then by a marker b # a that has its own
\* tensor marker and three valid rows (a occurring nowhere else in the file
\* and b not again after that), the map has no entry for a and the entry for b
\* is the matrix of b's own three rows.
C1_BlockIsolation ==
    \A i \in 1..Len(content) : \A k \in 1..Len(content) :
        (/\ Abandoned(content, i, k)
         /\ PlainBlock(content, k) # <<>>
         /\ \A k2 \in Markers(content, content[k].nuc) : k2 <= k)
        => /\ content[i].nuc \notin DOMAIN raw_efg_matrices
           /\ content[k].nuc \in DOMAIN raw_efg_matrices
           /\ raw_efg_matrices[content[k].nuc] = PlainBlock(content, k)

\* C1 witness: an abandoned block that had collected a row, followed by a
\* stored block of the other nucleus made of different rows.
C1_Witness ==
    \E i \in 1..Len(content) : \E k \in 1..Len(content) :
        /\ Abandoned(content, i, k)
        /\ \E j \in (i + 1)..(k - 1) : IsRow(content[j]) /\ content[j].toks = RowA
        /\ PlainBlock(content, k) # <<>>
        /\ raw_efg_matrices = (content[k].nuc :> << <<5, 30, 0>>, <<5, 30, 0>>, <<5, 30, 0>> >>)

\* C3: result value.  A marker n followed by one tensor marker and three valid
\* rows, with only ordinary lines of another token count in between (and n not
\* marked again later), maps n to the matrix whose row i is the i-th of these
\* lines and whose column j is its j-th token.
C3_ResultValue ==
    \A i \in 1..Len(content) :
        (/\ IsMarker(content[i])
         /\ PlainBlock(content, i) # <<>>
         /\ \A k \in Markers(content, content[i].nuc) : k <= i)
        => /\ content[i].nuc \in DOMAIN raw_efg_matrices
           /\ raw_efg_matrices[content[i].nuc] = PlainBlock(content, i)

\* C3 witness: the rows "1.0 0.0 -2.5", "0.5 3.0 0.0", "0.5 3.0 0.0", the first
\* two separated by a two-token line, stored in that order and untransposed.
C3_Witness ==
    /\ Len(content) = 7
    /\ content[1] = Line(1, FALSE, <<>>)
    /\ content[2] = RawLine
    /\ content[3] = Line(None, FALSE, RowA)
    /\ content[4] = Line(None, FALSE, Junk)
    /\ content[5] = Line(None, FALSE, RowB)
    /\ content[6] = Line(None, FALSE, Junk)
    /\ content[7] = Line(None, FALSE, RowB)
    /\ raw_efg_matrices = (1 :> << <<10, 0, -25>>, <<5, 30, 0>>, <<5, 30, 0>> >>)

\* C4 as stated: every marker n that is followed anywhere later in the file by
\* a tensor marker and three three-token lines has the key n in the map.
C4_CoverageAnywhereLater ==
    \A i \in 1..Len(content) :
        (/\ IsMarker(content[i])
         /\ \E j \in (i + 1)..Len(content) :
              /\ content[j].raw
              /\ Cardinality({k \in (j + 1)..Len(content) : Len(content[k].toks) = 3}) >= 3)
        => content[i].nuc \in DOMAIN raw_efg_matrices

\* C4 amended: every marker n that is followed by a tensor marker and three
\* valid rows, with no nucleus marker between the marker and the third row and
\* no tensor marker between that tensor marker and the third row, has the key
\* n in the map.
C4_Coverage ==
    \A i \in 1..Len(content) :
        (IsMarker(content[i]) /\ HasCompleteBlock(content, i))
        => content[i].nuc \in DOMAIN raw_efg_matrices

\* C4 witness: a block completed after a restart by a second tensor marker.
C4_Witness ==
    \E i \in 1..Len(content) :
        /\ IsMarker(content[i])
        /\ HasCompleteBlock(content, i)
        /\ Cardinality({j \in i..SegEnd(content, i) : content[j].raw}) = 2
        /\ content[i].nuc \in DOMAIN raw_efg_matrices

\* C10: end-of-file policy.  If the file ends with no complete block collected
\* after any marker of index n, then n is not a key of the map.
C10_EndOfFile ==
    \A n \in NucIds :
        (\A i \in Markers(content, n) : ~HasCompleteBlock(content, i))
        => n \notin DOMAIN raw_efg_matrices

\* C10 witness: the file ends inside the block of nucleus 1 with two rows
\* collected, after an abandoned block of nucleus 0; the map is empty.
C10_Witness ==
    /\ Markers(content, 0) # {} /\ Markers(content, 1) # {}
    /\ \E i \in Markers(content, 0) : \E j \in i..SegEnd(content, i) : content[j].raw
    /\ current_nucleus = 1
    /\ efg_section
    /\ Len(efg_matrix_lines) = 2
    /\ DOMAIN raw_efg_matrices = {}

\* ------------------------------------------------------------------------
\* Claims about get_canonical_orientation
\* ------------------------------------------------------------------------

\* Z . (X x Y), in units of 1/27.
Triple(o) == Dot(o.Z, Scaled(3, Cross(o.X, o.Y)))

Returned == opc = "return" /\ raw_efg_matrix # NoMatrix

DistinctEigenvalues == eigvals[1] < eigvals[2] /\ eigvals[2] < eigvals[3]

DistinctAbs ==
    \A i \in 1..3 : \A j \in 1..3 : i # j => Abs(eigvals[i]) # Abs(eigvals[j])

\* C2: right-handedness.  For a matrix with distinct eigenvalues and whatever
\* eigenvectors the solver returned, the returned frame has Z . (X x Y) = +1.
C2_RightHanded ==
    (Returned /\ DistinctEigenvalues) => Triple(orientation) = 27

\* C5: axis selection.  When the absolute values of the eigenvalues differ
\* pairwise, Z is the solver's eigenvector of the eigenvalue of greatest
\* absolute value; for diag(1, -5, 3) Z lies on the second axis, and for
\* diag(1, 2, -5) Z lies on the third axis and X on the first or the second.
C5_AxisSelection ==
    (Returned /\ DistinctAbs) =>
        /\ \E i \in 1..3 :
             /\ \A j \in 1..3 : Abs(eigvals[j]) <= Abs(eigvals[i])
             /\ orientation.Z = eigvecs[i]
             /\ MatVec(raw_efg_matrix, orientation.Z) = Scaled(eigvals[i], orientation.Z)
        /\ raw_efg_matrix = Compose(Axes, <<1, -5, 3>>)
             => orientation.Z \in {<<0, 3, 0>>, <<0, -3, 0>>}
        /\ raw_efg_matrix = Compose(Axes, <<1, 2, -5>>)
             => /\ orientation.Z \in {<<0, 0, 3>>, <<0, 0, -3>>}
                /\ orientation.X \in {<<3, 0, 0>>, <<-3, 0, 0>>, <<0, 3, 0>>, <<0, -3, 0>>}

\* C5 witness: the resolver has returned for diag(1, 2, -5), with Z = (0,0,-1).
C5_Witness ==
    /\ Returned
    /\ raw_efg_matrix = Compose(Axes, <<1, 2, -5>>)
    /\ eigvals = <<-5, 1, 2>>
    /\ orientation.Z = <<0, 0, -3>>

\* ------------------------------------------------------------------------
\* Claims about process_hydride_orientations_csv
\* ------------------------------------------------------------------------

Named(r) == input_data[r]["Filename"] # NaN

FileOf(r) == folder[OrcaFile(input_data[r]["Filename"])]

MatricesOf(r) == ExtractRawEfgMatrices(FileOf(r).lines)

\* The index that entry e, place k of a cell names.
IndexAt(cell, e, k) == Indices(Entries(cell)[e])[k]

\* The places <<e, k>> of a cell.
Places(cell) ==
    {<<e, k>> : e \in 1..Len(Entries(cell)), k \in 1..2} \cap
    {p \in (1..Len(Entries(cell))) \X (1..2) : p[2] <= Len(Indices(Entries(cell)[p[1]]))}

\* The cell text that reads 'N/A' for every index of the cell.
AllNA(cell) ==
    CellText(cell, [e \in 1..Len(Entries(cell)) |->
                      [k \in 1..Len(Indices(Entries(cell)[e])) |-> "N/A"]])

\* The run stops only at a row whose file exists and either cannot be read or
\* is read for an index cell that pandas holds as a float.
HaltsOnlyOnRaise ==
    dpc = "raised" =>
        /\ idx < Len(input_data)
        /\ Named(idx + 1) /\ FileOf(idx + 1).exists
        /\ ~FileOf(idx + 1).readable \/ FloatCell(input_data, idx + 1)

\* C6: absence propagation.  In every row that was processed, the piece of
\* every cell index that is not a key of the map of the row's file is exactly
\* 'N/A', and no error comes of a missing key: the run stops only where a
\* file cannot be read or where a cell holds no index text.
C6_AbsencePropagation ==
    /\ HaltsOnlyOnRaise
    /\ \A r \in 1..idx :
        (Named(r) /\ FileOf(r).readable) =>
            \A col \in FilledCols(input_data[r]) :
                /\ col \in DOMAIN entry_orientations[r]
                /\ \A p \in Places(input_data[r][col]) :
                     IndexAt(input_data[r][col], p[1], p[2]) \notin DOMAIN MatricesOf(r)
                       => entry_orientations[r][col][p[1]][p[2]] = "N/A"

\* C6 witness: a processed cell with one index that has a matrix and one that
\* has none.
C6_Witness ==
    \E r \in 1..idx :
        /\ Named(r) /\ FileOf(r).readable
        /\ "Hydrides - mu1H" \in DOMAIN entry_orientations[r]
        /\ \E p \in Places(input_data[r]["Hydrides - mu1H"]) :
             /\ IndexAt(input_data[r]["Hydrides - mu1H"], p[1], p[2]) \notin DOMAIN MatricesOf(r)
             /\ entry_orientations[r]["Hydrides - mu1H"][p[1]][p[2]] = "N/A"
        /\ \E p \in Places(input_data[r]["Hydrides - mu1H"]) :
             /\ IndexAt(input_data[r]["Hydrides - mu1H"], p[1], p[2]) \in DOMAIN MatricesOf(r)
             /\ entry_orientations[r]["Hydrides - mu1H"][p[1]][p[2]] # "N/A"

\* C7 as stated: absent data never halts the run, and in the written table the
\* orientation cell of every named row and filled hydride cell reads 'N/A' for
\* each index whose data is absent: all of them when the row has no ORCA file,
\* and those without a matrix when it has one.
C7_AbsentDataAlwaysNA ==
    /\ HaltsOnlyOnRaise
    /\ dpc = "written" =>
         \A r \in 1..Len(input_data) : Named(r) =>
             \A col \in FilledCols(input_data[r]) :
                 /\ ~FileOf(r).exists =>
                      csv[r][OrientationCol(col)] = AllNA(input_data[r][col])
                 /\ FileOf(r).readable =>
                      /\ csv[r][OrientationCol(col)] =
                             CellText(input_data[r][col], entry_orientations[r][col])
                      /\ \A p \in Places(input_data[r][col]) :
                           IndexAt(input_data[r][col], p[1], p[2]) \notin DOMAIN MatricesOf(r)
                             => entry_orientations[r][col][p[1]][p[2]] = "N/A"

\* C7 amended: absent data never halts the run; in the written table the cell
\* reads 'N/A' for each index without a matrix when the row's ORCA file was
\* read (no marker found, no matrix for an index), and the cell is the empty
\* string when the row has no matching ORCA file.
C7_AbsentData ==
    /\ HaltsOnlyOnRaise
    /\ dpc = "written" =>
         \A r \in 1..Len(input_data) : Named(r) =>
             \A col \in FilledCols(input_data[r]) :
                 /\ ~FileOf(r).exists => csv[r][OrientationCol(col)] = ""
                 /\ FileOf(r).readable =>
                      /\ csv[r][OrientationCol(col)] =
                             CellText(input_data[r][col], entry_orientations[r][col])
                      /\ \A p \in Places(input_data[r][col]) :
                           IndexAt(input_data[r][col], p[1], p[2]) \notin DOMAIN MatricesOf(r)
                             => entry_orientations[r][col][p[1]][p[2]] = "N/A"

\* C7 witness: a written table with a row without ORCA file, whose cell is
\* empty, and a row whose file has no marker, whose cell reads N/A;N/A.
C7_Witness ==
    /\ dpc = "written"
    /\ \E r \in 1..Len(input_data) :
         /\ Named(r) /\ ~FileOf(r).exists
         /\ input_data[r]["Hydrides - mu1H"] = "0;1"
         /\ csv[r]["Hydrides - mu1H_orientations"] = ""
    /\ \E r \in 1..Len(input_data) :
         /\ Named(r) /\ FileOf(r) = Readable(FileNoMarker)
         /\ input_data[r]["Hydrides - mu1H"] = "0;1"
         /\ csv[r]["Hydrides - mu1H_orientations"] = "N/A;N/A"

\* C8: per-row containment.  An ORCA file that exists and cannot be read
\* never aborts the batch: the loop goes on to the remaining rows and the
\* table is written.
C8_PerRowContainment ==
    /\ dpc # "raised"
    /\ dpc = "written" => Len(csv) = Len(input_data)

\* The output rows that a named row of the table can get from a readable file
\* with the given lines, taken alone: one for each answer of the eigensolver.
RowResults ==
    { <<in_row, f.lines,
        { RowOutput(NewOutput(<<in_row>>)[1], in_row,
                    RowPieces(in_row, ExtractRawEfgMatrices(f.lines), solver)) :
            solver \in Solvers(ExtractRawEfgMatrices(f.lines)) }>> :
        in_row \in {r \in InputRows : r["Filename"] # NaN},
        f \in {g \in Files : g.readable} }

ResultsOf(in_row, lines) ==
    (CHOOSE p \in RowResults : p[1] = in_row /\ p[2] = lines)[3]

MaxAny == 6

\* re.search(r'Nucleus\s+(\d+)H', line) on a header "Nucleus <num><el> :":
\* the pattern ends with the letter H, so it matches every element symbol
\* that starts with H and captures num.
NucleusMatch(num, el) == IF el # "" /\ SubSeq(el, 1, 1) = "H" THEN num ELSE None

\* A line of the wide alphabet: el and num are the element symbol and the
\* index printed in a nucleus header (el = "" on a line without header).
WideLine(num, el, raw, toks) ==
    [nuc |-> NucleusMatch(num, el), raw |-> raw, toks |-> toks, el |-> el, num |-> num]

\* "Nucleus 0H :", "Nucleus 1C :", "Nucleus 1Hg :", "Raw EFG matrix",
\* a header and the tensor marker on one line, a matrix row, a two-token line.
AnyLines ==
    { WideLine(0, "H", FALSE, <<>>), WideLine(1, "C", FALSE, <<>>),
      WideLine(1, "Hg", FALSE, <<>>), WideLine(0, "", TRUE, <<>>),
      WideLine(0, "H", TRUE, <<>>), WideLine(0, "", FALSE, RowA),
      WideLine(0, "", FALSE, Junk) }

\* Files of up to MaxAny lines over AnyLines.
ReadLineAny == ReadLineOf(AnyLines, MaxAny) /\ UNCHANGED <<orientVars, driverVars, extraVars>>

NextScanAny == ReadLineAny

SpecScanAny == Init /\ [][NextScanAny]_vars

\* The scanner state after the first k lines of c.
StateAt(c, k) == ScanFrom(ScanInit, SubSeq(c, 1, k), 1)

\* A 3x3 matrix of converted tokens.
IsMatrix(m) == Len(m) = 3 /\ \A i \in 1..3 : Len(m[i]) = 3 /\ \A j \in 1..3 : m[i][j] \in Int

\* The rows converted from the three-token lines of c.
ConvertedRows(c) == {FloatRow(c[k].toks) : k \in {j \in 1..Len(c) : Len(c[j].toks) = 3}}

\* C11: the scan never fails on content.  After every line of every file the
\* scanner is in a regular state: the map is the result of the scan of the
\* lines read, its keys are captured indices and its values 3x3 matrices, an
\* open block always has a current nucleus to be stored under and fewer than
\* three rows, and every row that was converted comes from a line that passed
\* the three-token test.
C11_NeverFails ==
    /\ raw_efg_matrices = ExtractRawEfgMatrices(content)
    /\ \A k \in DOMAIN raw_efg_matrices :
          /\ k \in Nat
          /\ IsMatrix(raw_efg_matrices[k])
          /\ \A i \in 1..3 : raw_efg_matrices[k][i] \in ConvertedRows(content)
    /\ current_nucleus \in Nat \cup {None}
    /\ efg_section => current_nucleus # None
    /\ Len(efg_matrix_lines) < 3
    /\ \A i \in 1..Len(efg_matrix_lines) : efg_matrix_lines[i] \in ConvertedRows(content)
    /\ ~efg_section => efg_matrix_lines = <<>>

\* C11 witness: a file of MaxAny lines with a header of another element, a
\* header line that also holds the tensor marker and a two-token line inside
\* the block, scanned to the end with a stored matrix.
C11_Witness ==
    /\ Len(content) = MaxAny
    /\ \E k \in 1..Len(content) : content[k].el = "C"
    /\ \E k \in 1..Len(content) : content[k].el = "H" /\ content[k].raw
    /\ \E k \in 2..Len(content) : content[k].toks = Junk /\ StateAt(content, k - 1).section
    /\ DOMAIN raw_efg_matrices = {0}

\* ------------------------------------------------------------------------
\* Claims about the steps of the scanner
\* ------------------------------------------------------------------------

\* The scanner is idle: no current nucleus, no open block, no collected row.
Idle == current_nucleus = None /\ ~efg_section /\ efg_matrix_lines = <<>>

\* The line read by the step.
NewLine == content'[Len(content')]

\* The step reads the third row of the open block.
ThirdRow ==
    /\ efg_section /\ Len(efg_matrix_lines) = 2
    /\ NewLine.nuc = None /\ ~NewLine.raw /\ Len(NewLine.toks) = 3

\* The three-token lines of c after its last tensor marker, converted.
RowsOfOpenBlock(c) ==
    LET j == CHOOSE k \in 1..Len(c) : c[k].raw /\ \A k2 \in (k + 1)..Len(c) : ~c[k2].raw
        ks == SelectSeq([k \in 1..Len(c) |-> k], LAMBDA k : k > j /\ Len(c[k].toks) = 3)
    IN  [i \in 1..Len(ks) |-> FloatRow(c[ks[i]].toks)]

\* C12: reset after emission.  The step that reads the third row of a block
\* stores the block under the current nucleus and leaves the scanner idle;
\* while the scanner has no current nucleus, a step that reads a line without
\* hydrogen marker (a tensor marker, a numeric line) leaves the map unchanged
\* and the scanner idle; a marker read by an idle scanner becomes current with
\* no open block and no row; and the rows of an open block are always the
\* three-token lines read after its own tensor marker, so none of an earlier
\* block.
C12_ResetAfterEmission ==
    /\ [][ /\ ThirdRow =>
                /\ raw_efg_matrices' =
                      DictSet(raw_efg_matrices, current_nucleus,
                              Append(efg_matrix_lines, FloatRow(NewLine.toks)))
                /\ Idle'
           /\ (current_nucleus = None /\ NewLine.nuc = None) =>
                /\ raw_efg_matrices' = raw_efg_matrices
                /\ Idle'
           /\ (Idle /\ NewLine.nuc # None) =>
                /\ raw_efg_matrices' = raw_efg_matrices
                /\ current_nucleus' = NewLine.nuc
                /\ ~efg_section' /\ efg_matrix_lines' = <<>> ]_vars
    /\ [](efg_section => efg_matrix_lines = RowsOfOpenBlock(content))
    /\ [](current_nucleus = None => Idle)

\* C12 witness: a block was stored, a numeric line after it left the map as it
\* was, and a later marker has opened a block of its own that holds no row.
C12_Witness ==
    \E e \in 1..Len(content) :
        /\ StateAt(content, e - 1).section /\ Len(StateAt(content, e - 1).lines) = 2
        /\ StateAt(content, e).nucleus = None
        /\ e + 2 <= Len(content)
        /\ content[e + 1].nuc = None /\ Len(content[e + 1].toks) = 3
        /\ content[e + 2].nuc # None
        /\ efg_section /\ efg_matrix_lines = <<>>
        /\ raw_efg_matrices = StateAt(content, e).matrices
        /\ DOMAIN raw_efg_matrices # {}

\* The last nucleus header of c, of any element (0 when there is none).
LastHeader(c) ==
    IF \E k \in 1..Len(c) : c[k].el # ""
    THEN CHOOSE k \in 1..Len(c) : c[k].el # "" /\ \A k2 \in (k + 1)..Len(c) : c[k2].el = ""
    ELSE 0

\* The last line read completed a block and stored it.
StoredNow ==
    /\ Len(content) > 0
    /\ StateAt(content, Len(content) - 1).section
    /\ current_nucleus = None

\* C13: only hydrogen blocks are recorded.  Whenever a block is stored, the
\* nucleus header it follows (the last header of any element before it) is a
\* hydrogen header, and the block is stored under the index of that header.
C13_OnlyHydrogenBlocks ==
    StoredNow =>
        LET h == LastHeader(content)
        IN  /\ h > 0
            /\ content[h].el = "H"
            /\ content[h].num = StateAt(content, Len(content) - 1).nucleus

\* ------------------------------------------------------------------------
\* The driver on cells with several groups of indices
\* ------------------------------------------------------------------------

\* Most groups in a cell of the tables of SpecGroups.
MaxGroups == 2

\* A group: one or two of the indices 0 and 1.
IndexGroups == UNION {[1..n -> {0, 1}] : n \in 1..2}

\* The structure of a cell: groups separated by ';', or, in a cell without
\* ';', single indices separated by ','.
CellStructs ==
    { [groups |-> g, sep |-> ";"] : g \in UNION {[1..n -> IndexGroups] : n \in 2..MaxGroups} }
    \cup
    { [groups |-> [e \in 1..Len(g) |-> <<g[e]>>], sep |-> ","] :
        g \in UNION {[1..n -> {0, 1}] : n \in 1..MaxGroups} }

\* The decimal text of a small index.
IndexText(i) == IF i = 0 THEN "0" ELSE "1"

\* The texts item(1), .., item(n) written one after the other with sep between.
RECURSIVE Interleave(_, _, _)
Interleave(n, item(_), sep) ==
    IF n = 0 THEN ""
    ELSE IF n = 1 THEN item(1)
    ELSE Interleave(n - 1, item, sep) \o sep \o item(n)

\* The text of a cell with the structure s, each index i written as res[i].
StructText(s, res) ==
    LET GroupText(e) ==
            LET IndexItem(k) == res[s.groups[e][k]]
            IN  Interleave(Len(s.groups[e]), IndexItem, ",")
    IN  Interleave(Len(s.groups), GroupText, s.sep)

\* The cells of the tables of SpecGroups.
GroupCells == {StructText(s, [i \in {0, 1} |-> IndexText(i)]) : s \in CellStructs}

\* One-row tables over the group cells.
InitGroups ==
    /\ input_data \in
          { << [c \in {Columns[k] : k \in 1..Len(Columns)} |->
                  IF c = "Filename" THEN name
                  ELSE IF c = "Hydrides - mu1H" THEN cell ELSE "7"] >> :
              name \in {"a.xyz", NaN}, cell \in GroupCells }
    /\ folder \in Folders
    /\ idx = 0
    /\ output_data = NewOutput(input_data)
    /\ entry_orientations = [r \in 1..Len(input_data) |-> EmptyDict]
    /\ calls = {}
    /\ dpc = "loop"
    /\ csv = <<>>

InitGroupsSpec == InitScan /\ IdleOrient /\ InitGroups /\ IdleExtra

SpecGroups == InitGroupsSpec /\ [][NextDriver]_vars

\* The structure of a cell text.
StructOf(cell) ==
    CHOOSE s \in CellStructs : StructText(s, [i \in {0, 1} |-> IndexText(i)]) = cell

\* C14: index-group structure.  In every processed row the cell is parsed
\* into its groups (separated by ';' if the cell contains ';', otherwise by
\* ','; indices of a group separated by ','), and the orientation cell is the
\* text of the same structure with each index replaced by its result: results
\* of a group joined by ',', groups joined by the separator of the input cell,
\* in the input order.
C14_GroupStructure ==
    \A r \in 1..idx :
        (Named(r) /\ FileOf(r).readable) =>
            LET cell == input_data[r]["Hydrides - mu1H"]
                s == StructOf(cell)
            IN  /\ Separator(cell) = s.sep
                /\ [e \in 1..Len(Entries(cell)) |-> Indices(Entries(cell)[e])] = s.groups
                /\ \E solver \in Solvers(MatricesOf(r)) :
                      output_data[r]["Hydrides - mu1H_orientations"] =
                          StructText(s, [i \in {0, 1} |->
                              FormatOrientationOutput(
                                  GetCanonicalOrientation(Lookup(MatricesOf(r), i), solver))])

\* C14 witness: the processed cell '0,1;1' of a file with a matrix for 0 only:
\* an orientation, then ',N/A;N/A'.
C14_Witness ==
    /\ idx = 1
    /\ Named(1) /\ FileOf(1) = Readable(FileH0)
    /\ input_data[1]["Hydrides - mu1H"] = "0,1;1"
    /\ \E solver \in Solvers(MatricesOf(1)) :
          output_data[1]["Hydrides - mu1H_orientations"] =
              FormatOrientationOutput(GetCanonicalOrientation(Lookup(MatricesOf(1), 0), solver))
              \o ",N/A;N/A"

\* ------------------------------------------------------------------------
\* The driver on tables that already hold an orientation column
\* ------------------------------------------------------------------------

\* An orientation cell as written by an earlier run.
OldOrientation ==
    "X(1.000000,0.000000,0.000000);Y(0.000000,1.000000,0.000000);Z(0.000000,0.000000,1.000000)"

\* Rows of a table read back from an output of the driver: a column
\* 'Hydrides - mu1H_orientations' stands next to the hydride column.
ShapeRows ==
    { [c \in {"Filename", "Hydrides - mu1H", "Hydrides - mu1H_orientations"} |->
          IF c = "Filename" THEN name
          ELSE IF c = "Hydrides - mu1H" THEN cell ELSE old] :
        name \in Filenames \cup {NaN}, cell \in {"0,1", NaN}, old \in {OldOrientation, NaN} }

\* Tables of such rows, or of rows of the plain layout, and an ORCA folder
\* that holds neither of the two files.
InitShape ==
    /\ input_data \in UNION {[1..n -> ShapeRows] : n \in 0..MaxRows}
                      \cup UNION {[1..n -> {r \in InputRows : r["Hydrides - mu1H"] # "1"}] :
                                    n \in 0..MaxRows}
    /\ folder = [name \in {"a_input.inp.out", "b_input.inp.out"} |-> NoFile]
    /\ idx = 0
    /\ output_data = NewOutput(input_data)
    /\ entry_orientations = [r \in 1..Len(input_data) |-> EmptyDict]
    /\ calls = {}
    /\ dpc = "loop"
    /\ csv = <<>>

InitShapeSpec == InitScan /\ IdleOrient /\ InitShape /\ IdleExtra

\* With no ORCA file in the folder every row is skipped.
NextShape == RowNoName \/ RowNoFile \/ WriteCsv

SpecShape == InitShapeSpec /\ [][NextShape]_vars

\* C15: output table shape.  The written table has one row per input row in
\* the input order, every input column keeps its input value in every row,
\* and the added columns are exactly one column '<col>_orientations' for each
\* input column whose name contains 'Hydrides'.
C15_TableShape ==
    dpc = "written" =>
        /\ Len(csv) = Len(input_data)
        /\ \A r \in 1..Len(input_data) :
              LET hyd == {c \in DOMAIN input_data[r] : Contains(c, "Hydrides")}
                  added == (DOMAIN csv[r]) \ (DOMAIN input_data[r])
              IN  /\ \A c \in DOMAIN input_data[r] :
                        c \in DOMAIN csv[r] /\ csv[r][c] = input_data[r][c]
                  /\ added = {OrientationCol(c) : c \in hyd}
                  /\ Cardinality(added) = Cardinality(hyd)

\* ------------------------------------------------------------------------
\* Further claims about get_canonical_orientation
\* ------------------------------------------------------------------------

\* The solver's answer is orthonormal (vectors in thirds: unit length is 9).
SolverOrthonormal ==
    \A i \in 1..3 : \A j \in 1..3 :
        Dot(eigvecs[i], eigvecs[j]) = IF i = j THEN 9 ELSE 0

\* C16: orthonormality.  Given an orthonormal answer of the solver, the
\* returned X, Y and Z have unit length and are pairwise orthogonal, whether
\* or not Y was negated.
C16_Orthonormal ==
    (Returned /\ SolverOrthonormal) =>
        /\ Dot(orientation.X, orientation.X) = 9
        /\ Dot(orientation.Y, orientation.Y) = 9
        /\ Dot(orientation.Z, orientation.Z) = 9
        /\ Dot(orientation.X, orientation.Y) = 0
        /\ Dot(orientation.Y, orientation.Z) = 0
        /\ Dot(orientation.X, orientation.Z) = 0

\* C16 witness: a returned frame on the tilted basis whose Y is the negated
\* cross product.
C16_Witness ==
    /\ Returned /\ SolverOrthonormal
    /\ orientation.X = <<1, 2, 2>>
    /\ orientation.Y = Neg(Cross(orientation.Z, orientation.X))
    /\ DistinctEigenvalues

\* The indices whose eigenvalue has the greatest absolute value.
MaxAbsIndices == {i \in 1..3 : \A j \in 1..3 : Abs(eigvals[j]) <= Abs(eigvals[i])}

\* C17: tie-break of the axis selection.  When two or three eigenvalues share
\* the greatest absolute value, Z is the solver's eigenvector of the lowest of
\* these indices, whose eigenvalue is the most negative of them, and X and Y
\* are the eigenvectors of the other two indices in ascending order.
C17_TieBreak ==
    (Returned /\ Cardinality(MaxAbsIndices) >= 2) =>
        \E i \in MaxAbsIndices :
            /\ \A j \in MaxAbsIndices : i <= j /\ eigvals[i] <= eigvals[j]
            /\ orientation.Z = eigvecs[i]
            /\ \E a \in 1..3 : \E b \in 1..3 :
                  /\ a < b /\ {a, b} = (1..3) \ {i}
                  /\ orientation.X = eigvecs[a]
                  /\ orientation.Y = eigvecs[b]

\* C17 witness: eigenvalues -5, 1, 5: Z is the eigenvector of -5.
C17_Witness ==
    /\ Returned
    /\ eigvals = <<-5, 1, 5>>
    /\ orientation.Z = eigvecs[1]
    /\ orientation.X = eigvecs[2]

\* ------------------------------------------------------------------------
\* format_orientation_output on its own
\* ------------------------------------------------------------------------

\* Vectors (in thirds) of the dicts given to the formatter.
FormatVectors == {<<3, 0, 0>>, <<0, -3, 0>>, <<1, 2, 2>>, <<-2, -1, 2>>}

\* Every dict with some of the keys X, Y, Z.
FormatInputs ==
    UNION {[keys -> FormatVectors] : keys \in SUBSET {"X", "Y", "Z"}}

InitFormat ==
    /\ format_input \in FormatInputs
    /\ formatted = ""
    /\ fpc = "call"

\* Lines 257-258: an empty dict or a missing key gives 'N/A'.
FormatNA ==
    /\ fpc = "call"
    /\ DOMAIN format_input = {} \/ \E key \in {"X", "Y", "Z"} : key \notin DOMAIN format_input
    /\ formatted' = FormatOrientationOutput(format_input)
    /\ fpc' = "return"
    /\ UNCHANGED <<format_input, filesVars, chemVars, moreVars>>
    /\ UNCHANGED <<scanVars, orientVars, driverVars>>

\* Lines 260-263: the three vectors are printed.
FormatFull ==
    /\ fpc = "call"
    /\ DOMAIN format_input # {} /\ \A key \in {"X", "Y", "Z"} : key \in DOMAIN format_input
    /\ formatted' = FormatOrientationOutput(format_input)
    /\ fpc' = "return"
    /\ UNCHANGED <<format_input, filesVars, chemVars, moreVars>>
    /\ UNCHANGED <<scanVars, orientVars, driverVars>>

InitFormatSpec ==
    InitScan /\ IdleOrient /\ IdleDriver /\ InitFormat /\ IdleFiles /\ IdleChem /\ IdleMore

NextFormat == FormatNA \/ FormatFull

\* The formatter on every dict of FormatInputs.
SpecFormat == InitFormatSpec /\ [][NextFormat]_vars

\* s is a decimal number with exactly six digits after the point.
IsFixed6(s) ==
    LET parts == Split(s, ".")
        DigitsOnly(t) ==
            Len(t) > 0 /\ \A k \in 1..Len(t) :
                SubSeq(t, k, k) \in {"0", "1", "2", "3", "4", "5", "6", "7", "8", "9"}
    IN  /\ Len(parts) = 2
        /\ Len(parts[2]) = 6 /\ DigitsOnly(parts[2])
        /\ DigitsOnly(IF SubSeq(parts[1], 1, 1) = "-"
                      THEN SubSeq(parts[1], 2, Len(parts[1])) ELSE parts[1])

\* s is axis(c1,c2,c3) with three six-digit components.
IsVectorText(s, axis) ==
    /\ Len(s) > 3
    /\ SubSeq(s, 1, 2) = axis \o "("
    /\ SubSeq(s, Len(s), Len(s)) = ")"
    /\ LET comps == Split(SubSeq(s, 3, Len(s) - 1), ",")
       IN  Len(comps) = 3 /\ \A k \in 1..3 : IsFixed6(comps[k])

\* s is X(..);Y(..);Z(..).
IsOrientationText(s) ==
    LET parts == Split(s, ";")
    IN  /\ Len(parts) = 3
        /\ IsVectorText(parts[1], "X")
        /\ IsVectorText(parts[2], "Y")
        /\ IsVectorText(parts[3], "Z")

\* C18: all-or-nothing formatting.  The returned string is 'N/A' exactly when
\* the dict is empty or lacks one of the keys X, Y, Z; otherwise it is
\* X(..);Y(..);Z(..) with three components each, each with six decimal
\* digits.  No partial orientation is returned.
C18_AllOrNothing ==
    fpc = "return" =>
        /\ formatted = "N/A" <=>
              (DOMAIN format_input = {}
               \/ \E key \in {"X", "Y", "Z"} : key \notin DOMAIN format_input)
        /\ formatted # "N/A" => IsOrientationText(formatted)

\* C18 witness: a dict with two of the three keys was formatted as N/A.
C18_Witness ==
    /\ fpc = "return"
    /\ DOMAIN format_input = {"X", "Z"}
    /\ formatted = "N/A"

\* ------------------------------------------------------------------------
\* extract_raw_efg_matrices called on one file after the other
\* ------------------------------------------------------------------------

\* Most files opened in a run, and most lines read in a run over all files.
MaxFiles == 2
MaxTotal == 6

\* Mutant of FreshLocals: the call goes on with what the last call left.
KeptLocals(st) == st

\* Lines 209-212: every call starts with its own empty map, no current
\* nucleus, no open block and no row, whatever an earlier call left.
FreshLocals(st) == ScanInit

\* "Nucleus 0H", "Raw EFG matrix" and a matrix row.
FileLines == {Line(0, FALSE, <<>>), RawLine, Line(None, FALSE, RowA)}

RECURSIVE TotalLines(_)
TotalLines(rs) == IF rs = <<>> THEN 0 ELSE Len(rs[1].lines) + TotalLines(Tail(rs))

InitFiles ==
    /\ returned = <<>>
    /\ consumed = <<>>
    /\ spc = "between"

\* Line 295 calls the extractor for the next row, lines 206-212 open the file
\* and set up the locals.  The loop body of the previous row is over by then.
FileOpen ==
    /\ spc = "between"
    /\ Len(consumed) = Len(returned)
    /\ Len(returned) < MaxFiles
    /\ LET st == FreshLocals(ScanNow)
       IN  /\ content' = <<>>
           /\ raw_efg_matrices' = st.matrices
           /\ current_nucleus' = st.nucleus
           /\ efg_section' = st.section
           /\ efg_matrix_lines' = st.lines
    /\ spc' = "scanning"
    /\ UNCHANGED <<returned, consumed, formatVars, chemVars, moreVars>>
    /\ UNCHANGED <<orientVars, driverVars>>

\* Lines 214-242 on the next line of the open file.
FileReadLine ==
    /\ spc = "scanning"
    /\ TotalLines(returned) + Len(content) < MaxTotal
    /\ ReadLineOf(FileLines, MaxTotal)
    /\ UNCHANGED <<filesVars, formatVars, chemVars, moreVars>>
    /\ UNCHANGED <<orientVars, driverVars>>

\* Line 244: the end of the file, the map is returned to line 295.
FileReturn ==
    /\ spc = "scanning"
    /\ returned' = Append(returned, [lines |-> content, matrices |-> raw_efg_matrices])
    /\ spc' = "between"
    /\ UNCHANGED <<consumed, formatVars, chemVars, moreVars>>
    /\ UNCHANGED <<scanVars, orientVars, driverVars>>

\* Lines 297-324: the hydride columns of the row look up their indices in the
\* map that was just returned.
FileConsume ==
    /\ spc = "between"
    /\ Len(consumed) < Len(returned)
    /\ consumed' = Append(consumed,
                          [i \in NucIds |-> Lookup(returned[Len(returned)].matrices, i)])
    /\ UNCHANGED <<returned, spc, formatVars, chemVars, moreVars>>
    /\ UNCHANGED <<scanVars, orientVars, driverVars>>

InitFilesSpec ==
    InitScan /\ IdleOrient /\ IdleDriver /\ IdleFormat /\ InitFiles /\ IdleChem /\ IdleMore

NextFiles == FileOpen \/ FileReadLine \/ FileReturn \/ FileConsume

\* The extractor on up to MaxFiles files of up to MaxTotal lines together.
SpecFiles == InitFilesSpec /\ [][NextFiles]_vars

\* C19: no state is shared across files.  The map returned for a file is the
\* map of a scan of its own lines from an idle scanner with an empty map, so
\* equal files give equal maps whatever was processed before; a file is being
\* scanned only when the map of every earlier file has been consumed; and
\* what the driver looked up for a row comes from the map of its own file.
C19_NoSharedState ==
    /\ \A k \in 1..Len(returned) :
          returned[k].matrices = ExtractRawEfgMatrices(returned[k].lines)
    /\ \A j \in 1..Len(returned) : \A k \in 1..Len(returned) :
          returned[j].lines = returned[k].lines => returned[j].matrices = returned[k].matrices
    /\ spc = "scanning" => Len(consumed) = Len(returned)
    /\ Len(consumed) <= Len(returned) /\ Len(returned) <= Len(consumed) + 1
    /\ \A k \in 1..Len(consumed) :
          \A i \in NucIds :
              consumed[k][i] = Lookup(ExtractRawEfgMatrices(returned[k].lines), i)

\* C19 witness: a file with a stored block was processed and consumed, then a
\* file that only holds a tensor marker, whose map is empty.
C19_Witness ==
    /\ Len(returned) = 2 /\ Len(consumed) = 2
    /\ DOMAIN returned[1].matrices = {0}
    /\ returned[2].lines = <<RawLine>>
    /\ returned[2].matrices = EmptyDict
    /\ consumed[1][0] # NoMatrix /\ consumed[2][0] = NoMatrix

\* ------------------------------------------------------------------------
\* extract_chem_shift_matrix_ORCA (src/ORCA_NBO_parsers/extract_chemshift_ORCA.py)
\* ------------------------------------------------------------------------

\* Most *.out files in the folder.
MaxOut == 2

\* The rows looked for in a phosphorus block (line 50).
RowNames == {"sDSO", "sPSO", "Total"}

\* Python's None as an argument, and an empty dict: both falsy in line 30.
NoRef == <<>>

\* The reference set built in for the standard files (lines 30-34), in
\* thousandths.
DefaultStd ==
    [sDSO |-> <<962856, 965926, 971039, 966607>>,
     sPSO |-> <<-758375, -760021, -551868, -690088>>,
     Total |-> <<204480, 205905, 419171, 276519>>]

\* Two reference sets of a caller, in thousandths.
CallerStd == [n \in RowNames |-> <<1000, 2000, 3000, 4000>>]
CallerBea == [n \in RowNames |-> <<5000, 6000, 7000, 8000>>]

\* x or y of Python on dicts.
Or(x, y) == IF x = NoRef THEN y ELSE x

\* str.lower() on one character.
LowerChar(c) ==
    LET upper == "ABCDEFGHIJKLMNOPQRSTUVWXYZ"
        lower == "abcdefghijklmnopqrstuvwxyz"
    IN  IF \E k \in 1..26 : SubSeq(upper, k, k) = c
        THEN LET k == CHOOSE j \in 1..26 : SubSeq(upper, j, j) = c
             IN  SubSeq(lower, k, k)
        ELSE c

RECURSIVE LowerText(_)
LowerText(s) == IF s = "" THEN "" ELSE LowerChar(SubSeq(s, 1, 1)) \o LowerText(SubSeq(s, 2, Len(s)))

\* re.search("bea", name, flags=re.I)
SearchBea(name) == Contains(LowerText(name), "bea")

\* Line 80: the four values of a row that was not found.
NoneRow == <<None, None, None, None>>

\* The four numbers of a row the pattern found in a chunk, <<>> for a row it
\* did not find.
FoundRow == <<1000, 1500, -2000, 500>>

\* A chunk as the three row patterns see it.
Chunks ==
    { [n \in RowNames |-> FoundRow],
      [n \in RowNames |-> IF n = "sDSO" THEN FoundRow ELSE <<>>],
      [n \in RowNames |-> <<>>] }

\* A file: its base name and the chunks of its phosphorus blocks.
OutFiles ==
    { [name |-> nm, blocks |-> b] :
        nm \in {"run.out", "run_BEA.out", "Bea2.out"},
        b \in UNION {[1..n -> Chunks] : n \in 0..2} }

InitChem ==
    /\ ref_std \in {NoRef, CallerStd}
    /\ ref_bea \in {NoRef, CallerBea}
    /\ out_files \in { fs \in UNION {[1..n -> OutFiles] : n \in 0..MaxOut} :
                         \A i \in 1..Len(fs) : \A j \in 1..Len(fs) :
                             i # j => fs[i].name # fs[j].name }
    /\ fi = 0
    /\ records = <<>>
    /\ cpc = "loop"

\* Line 30: the standard set in use.
EffectiveStd == Or(ref_std, DefaultStd)

\* Line 36: ref_bea = ref_std, the argument ref_bea is not read.
EffectiveBea == EffectiveStd

\* Lines 73-80: the differences of one chunk against ref.
Diffs(chunk, ref) ==
    [n \in RowNames |->
        IF chunk[n] # <<>>
        THEN [k \in 1..4 |-> ref[n][k] - chunk[n][k]]
        ELSE NoneRow]

\* Lines 60-62: a file without phosphorus block is passed over.
ChemNoBlocks ==
    /\ cpc = "loop" /\ fi < Len(out_files)
    /\ out_files[fi + 1].blocks = <<>>
    /\ fi' = fi + 1
    /\ UNCHANGED <<ref_std, ref_bea, out_files, records, cpc, formatVars, filesVars, moreVars>>
    /\ UNCHANGED <<scanVars, orientVars, driverVars>>

\* Lines 64-91: the reference set is chosen and a record is appended for every
\* block of the file.
ChemFile ==
    /\ cpc = "loop" /\ fi < Len(out_files)
    /\ out_files[fi + 1].blocks # <<>>
    /\ LET file == out_files[fi + 1]
           ref == IF SearchBea(file.name) THEN EffectiveBea ELSE EffectiveStd
       IN  records' = records \o
               [i \in 1..Len(file.blocks) |->
                   [Filename |-> file.name, diffs |-> Diffs(file.blocks[i], ref)]]
    /\ fi' = fi + 1
    /\ UNCHANGED <<ref_std, ref_bea, out_files, cpc, formatVars, filesVars, moreVars>>
    /\ UNCHANGED <<scanVars, orientVars, driverVars>>

\* Lines 94-97: the table is written and the records are returned.
ChemWrite ==
    /\ cpc = "loop" /\ fi = Len(out_files)
    /\ cpc' = "written"
    /\ UNCHANGED <<ref_std, ref_bea, out_files, fi, records, formatVars, filesVars, moreVars>>
    /\ UNCHANGED <<scanVars, orientVars, driverVars>>

InitChemSpec ==
    InitScan /\ IdleOrient /\ IdleDriver /\ IdleFormat /\ IdleFiles /\ InitChem /\ IdleMore

NextChem == ChemNoBlocks \/ ChemFile \/ ChemWrite

\* extract_chem_shift_matrix_ORCA on every folder of up to MaxOut files.
SpecChem == InitChemSpec /\ [][NextChem]_vars

\* The records of the file named nm, in the order of its blocks.
RecordsOf(nm) == SelectSeq(records, LAMBDA rec : rec.Filename = nm)

\* C20: reference-set selection.  The records of a file whose base name
\* contains 'bea' in any case hold, for every row found, the BEA reference
\* minus the extracted value, the BEA reference being the caller's ref_bea
\* when one is supplied; the records of every other file hold ref_std minus
\* the extracted value; a row that was not found gives four empty values.
C20_ReferenceSelection ==
    \A f \in 1..fi :
        LET file == out_files[f]
            recs == RecordsOf(file.name)
            bea == \E k \in 1..(Len(file.name) - 2) :
                      LowerText(SubSeq(file.name, k, k + 2)) = "bea"
            ref == IF bea THEN Or(ref_bea, EffectiveStd) ELSE EffectiveStd
        IN  /\ Len(recs) = Len(file.blocks)
            /\ \A i \in 1..Len(recs) : \A n \in RowNames :
                  IF file.blocks[i][n] = <<>>
                  THEN recs[i].diffs[n] = NoneRow
                  ELSE \A k \in 1..4 :
                          recs[i].diffs[n][k] = ref[n][k] - file.blocks[i][n][k]

\* ------------------------------------------------------------------------
\* Claims about the states of the scanner
\* ------------------------------------------------------------------------

\* Awaiting the tensor block: a current nucleus, no open block, no row.
Awaiting == current_nucleus # None /\ ~efg_section /\ efg_matrix_lines = <<>>

\* Collecting rows: a current nucleus, an open block, 0 to 2 rows.
Collecting == current_nucleus # None /\ efg_section /\ Len(efg_matrix_lines) \in 0..2

\* C24: scanner state invariant.  At every line boundary the scanner is in
\* exactly one of the states idle, awaiting-tensor-block and collecting-rows;
\* so efg_section is never true while current_nucleus is unset, and the number
\* of collected rows is never 3.
C24_StateInvariant ==
    /\ Cardinality({s \in {"idle", "awaiting", "collecting"} :
                       \/ s = "idle" /\ Idle
                       \/ s = "awaiting" /\ Awaiting
                       \/ s = "collecting" /\ Collecting}) = 1
    /\ ~(efg_section /\ current_nucleus = None)
    /\ Len(efg_matrix_lines) # 3

\* C24 witness: the scanner is collecting with two rows at the end of a file
\* of MaxAny lines, after it has been idle (a tensor marker read with no
\* nucleus, which opens nothing) and awaiting (a marker read).
C24_Witness ==
    /\ Collecting /\ Len(efg_matrix_lines) = 2
    /\ Len(content) = MaxAny
    /\ content[1].raw /\ content[1].nuc = None
    /\ StateAt(content, 1) = ScanInit
    /\ \E k \in 2..Len(content) :
          LET st == StateAt(content, k)
          IN  st.nucleus # None /\ ~st.section /\ st.lines = <<>>

\* ------------------------------------------------------------------------
\* The returned frame against the solver's eigenvectors
\* ------------------------------------------------------------------------

Before == StateAt(content, Len(content) - 1)

\* The last line read is a tensor marker without nucleus marker, read while a
\* block was open.
Restarted ==
    /\ Len(content) > 0
    /\ Before.section
    /\ content[Len(content)].raw /\ content[Len(content)].nuc = None

\* C27: restart on a repeated tensor marker.  A tensor marker read while a
\* block is open for nucleus n, with 0 to 2 rows collected, drops these rows
\* and leaves the block open for n with the map unchanged; and whenever a block
\* is stored, it is stored under its nucleus as the three valid rows read
\* after the last tensor marker.
C27_RestartOnTensorMarker ==
    /\ Restarted =>
          /\ Len(Before.lines) \in 0..2
          /\ efg_section /\ efg_matrix_lines = <<>>
          /\ current_nucleus = Before.nucleus
          /\ raw_efg_matrices = Before.matrices
    /\ StoredNow =>
          /\ Before.nucleus \in DOMAIN raw_efg_matrices
          /\ raw_efg_matrices[Before.nucleus] = RowsOfOpenBlock(content)

\* C27 witness: the block of nucleus 1 had collected the row "1.0 0.0 -2.5"
\* when a second tensor marker came; the stored matrix is made of the three
\* rows "0.5 3.0 0.0" that follow it.
C27_Witness ==
    /\ Len(content) = 7
    /\ content[1] = Line(1, FALSE, <<>>)
    /\ content[2] = RawLine
    /\ content[3] = Line(None, FALSE, RowA)
    /\ content[4] = RawLine
    /\ StateAt(content, 3).lines = <<FloatRow(RowA)>>
    /\ StateAt(content, 4).lines = <<>>
    /\ StoredNow
    /\ raw_efg_matrices = (1 :> << <<5, 30, 0>>, <<5, 30, 0>>, <<5, 30, 0>> >>)

\* Most blocks (nucleus marker, tensor marker, rows) of a file made of blocks.
MaxBlocks == 3

Max(S) == CHOOSE x \in S : \A y \in S : y <= x

\* The lines that can follow c in a file made of blocks: a block is a nucleus
\* marker, a tensor marker and 0 to 3 rows, all "1.0 0.0 -2.5" or all
\* "0.5 3.0 0.0"; a file is up to MaxBlocks blocks.
BlockLines(c) ==
    LET ms == {k \in 1..Len(c) : IsMarker(c[k])}
    IN  IF ms = {} THEN MarkerLines
        ELSE IF Len(c) = Max(ms) THEN {RawLine}
        ELSE LET rows == Len(c) - Max(ms) - 1
             IN  (IF Cardinality(ms) < MaxBlocks THEN MarkerLines ELSE {})
                 \cup (IF rows = 0 THEN {Line(None, FALSE, RowA), Line(None, FALSE, RowB)}
                       ELSE IF rows < 3 THEN {c[Len(c)]} ELSE {})

\* The loop reads the next line of a file made of blocks.
ReadLineBlocks ==
    /\ ReadLineOf(BlockLines(content), 5 * MaxBlocks)
    /\ UNCHANGED <<orientVars, driverVars, extraVars>>

NextScanBlocks == ReadLineBlocks

\* The scanner on every file made of up to MaxBlocks blocks.
SpecScanBlocks == Init /\ [][NextScanBlocks]_vars

\* The markers of index n in c that have a complete block.
CompleteMarkers(c, n) == {i \in Markers(c, n) : HasCompleteBlock(c, i)}

\* C28: repeated nucleus index.  When the index n has one or more complete
\* blocks among the lines read, the map holds for n the matrix of the last
\* of them, whatever abandoned or incomplete blocks of n follow it.
C28_LastCompleteBlock ==
    \A n \in NucIds :
        CompleteMarkers(content, n) # {} =>
            /\ n \in DOMAIN raw_efg_matrices
            /\ raw_efg_matrices[n] = PlainBlock(content, Max(CompleteMarkers(content, n)))

\* C28 witness: nucleus 0 has a complete block of rows "1.0 0.0 -2.5", then a
\* complete block of rows "0.5 3.0 0.0", then a block that the end of the file
\* leaves with one row; the map holds the second block.
C28_Witness ==
    /\ Len(content) = 13
    /\ Markers(content, 0) = {1, 6, 11}
    /\ content[3].toks = RowA /\ content[8].toks = RowB /\ content[13].toks = RowA
    /\ efg_section /\ Len(efg_matrix_lines) = 1
    /\ raw_efg_matrices = (0 :> << <<5, 30, 0>>, <<5, 30, 0>>, <<5, 30, 0>> >>)

\* ------------------------------------------------------------------------
\* extract_eqQ_and_eta_values
\* ------------------------------------------------------------------------

\* Longest file (in lines) of the runs of extract_eqQ_and_eta_values.
MaxEq == 6

\* A line as both scanners see it: nuc, raw and toks as in Line; eqq is the
\* token captured by re.search(r'e\*\*2qQ\s+=\s+([-\d.]+)\s+MHz', line) and
\* eta the token captured by re.search(r'eta\s+=\s+([-\d.]+)', line), each as
\* a sequence that is empty when the search fails.
OrcaLine(nuc, raw, toks, eqq, eta) ==
    [nuc |-> nuc, raw |-> raw, toks |-> toks, eqq |-> eqq, eta |-> eta]

\* The two searches on a line (no match on a line that holds neither text).
EqQMatch(line) == IF "eqq" \in DOMAIN line THEN line.eqq ELSE <<>>
EtaMatch(line) == IF "eta" \in DOMAIN line THEN line.eta ELSE <<>>

\* "e**2qQ = <v> MHz" and "eta = <v>".
EqQLine(v) == OrcaLine(None, FALSE, <<v>>, <<v>>, <<>>)
EtaLine(v) == OrcaLine(None, FALSE, <<v>>, <<>>, <<v>>)

\* "Nucleus 0H", "Nucleus 1H", "e**2qQ = -2.5 MHz", "e**2qQ = 1.0 MHz",
\* "eta = 0.5", "eta = 0.0", "Raw EFG matrix".
EqLines ==
    { OrcaLine(0, FALSE, <<>>, <<>>, <<>>), OrcaLine(1, FALSE, <<>>, <<>>, <<>>),
      EqQLine(Tok(TRUE, 2, 5)), EqQLine(Tok(FALSE, 1, 0)),
      EtaLine(Tok(FALSE, 0, 5)), EtaLine(Tok(FALSE, 0, 0)),
      OrcaLine(None, TRUE, <<>>, <<>>, <<>>) }

\* The locals of extract_eqQ_and_eta_values at a line boundary.
EqState(v, n, q) == [values |-> v, nucleus |-> n, eqQ |-> q]

\* Lines 39-41.
EqInit == EqState(EmptyDict, None, <<>>)

\* Mutant of EqScanLine: the e**2qQ value is kept with its sign.
EqScanLineSigned(st, line) ==
    LET s1 == IF line.nuc # None THEN [st EXCEPT !.nucleus = line.nuc, !.eqQ = <<>>] ELSE st
    IN  IF s1.nucleus = None THEN s1
        ELSE LET s2 == IF EqQMatch(line) # <<>>
                       THEN [s1 EXCEPT !.eqQ = <<Float(EqQMatch(line)[1])>>]
                       ELSE s1
             IN  IF EtaMatch(line) # <<>> /\ s2.eqQ # <<>>
                 THEN EqState(DictSet(s2.values, s2.nucleus,
                                      <<s2.eqQ[1], Float(EtaMatch(line)[1])>>), None, <<>>)
                 ELSE s2

\* One iteration of the for loop (lines 43-62).
EqScanLine(st, line) ==
    LET s1 == IF line.nuc # None THEN [st EXCEPT !.nucleus = line.nuc, !.eqQ = <<>>] ELSE st
    IN  IF s1.nucleus = None THEN s1
        ELSE LET s2 == IF EqQMatch(line) # <<>>
                       THEN [s1 EXCEPT !.eqQ = <<Abs(Float(EqQMatch(line)[1]))>>]
                       ELSE s1
             IN  IF EtaMatch(line) # <<>> /\ s2.eqQ # <<>>
                 THEN EqState(DictSet(s2.values, s2.nucleus,
                                      <<s2.eqQ[1], Float(EtaMatch(line)[1])>>), None, <<>>)
                 ELSE s2

RECURSIVE EqScanFrom(_, _, _)
EqScanFrom(st, lines, i) ==
    IF i > Len(lines) THEN st ELSE EqScanFrom(EqScanLine(st, lines[i]), lines, i + 1)

\* extract_eqQ_and_eta_values on a readable file with the given lines.
ExtractEqQAndEtaValues(lines) == EqScanFrom(EqInit, lines, 1).values

\* The loop of extract_eqQ_and_eta_values reads the next line of a file.
ReadEqLine ==
    /\ Len(content) < MaxEq
    /\ \E line \in EqLines :
         LET st == EqScanLine(EqState(efg_values, current_nucleus, current_eqQ), line)
         IN  /\ content' = Append(content, line)
             /\ efg_values' = st.values
             /\ current_nucleus' = st.nucleus
             /\ current_eqQ' = st.eqQ
    /\ UNCHANGED <<raw_efg_matrices, efg_section, efg_matrix_lines>>
    /\ UNCHANGED <<orientVars, driverVars, formatVars, filesVars, chemVars, scalarVars, fqVars>>

NextEq == ReadEqLine

\* extract_eqQ_and_eta_values on every file of up to MaxEq lines.
SpecEq == Init /\ [][NextEq]_vars

\* The last nucleus marker among the first k lines of c (0 when there is none).
MarkerBefore(c, k) == Max({m \in 1..k : c[m].nuc # None} \cup {0})

\* The e**2qQ lines from the marker at m to line k.
EqQLinesIn(c, m, k) == {q \in m..k : EqQMatch(c[q]) # <<>>}

\* Line k of c stores a pair: it is an eta line, a marker precedes it, an
\* e**2qQ line lies between that marker and k, and no eta line lies between
\* the first such e**2qQ line and k.
StoresAt(c, k) ==
    /\ EtaMatch(c[k]) # <<>>
    /\ MarkerBefore(c, k) > 0
    /\ EqQLinesIn(c, MarkerBefore(c, k), k) # {}
    /\ \A e \in Min(EqQLinesIn(c, MarkerBefore(c, k), k))..(k - 1) : EtaMatch(c[e]) = <<>>

\* The pair stored by line k: the absolute value of the most recent e**2qQ
\* line and the value of line k.
PairAt(c, k) ==
    << Abs(Float(EqQMatch(c[Max(EqQLinesIn(c, MarkerBefore(c, k), k))])[1])),
       Float(EtaMatch(c[k])[1]) >>

\* The lines of c that store a pair for nucleus n.
StoreLines(c, n) == {k \in 1..Len(c) : StoresAt(c, k) /\ c[MarkerBefore(c, k)].nuc = n}

\* C23: one pair per nucleus.  The map holds, for exactly the indices n that
\* have a storing line, the pair of the last storing line of n: the absolute
\* value of the most recent e**2qQ line since the marker and the value of the
\* first eta line at or after the first e**2qQ line.  An eta line before any
\* e**2qQ line of the nucleus stores nothing, lines after a stored pair are
\* ignored until the next marker, and every stored e**2qQ is non-negative.
C23_OnePairPerNucleus ==
    /\ DOMAIN efg_values = {n \in NucIds : StoreLines(content, n) # {}}
    /\ \A n \in DOMAIN efg_values :
          /\ efg_values[n] = PairAt(content, Max(StoreLines(content, n)))
          /\ efg_values[n][1] >= 0
    /\ current_nucleus = None <=>
          \/ MarkerBefore(content, Len(content)) = 0
          \/ \E k \in MarkerBefore(content, Len(content))..Len(content) : StoresAt(content, k)
    /\ current_nucleus = None => current_eqQ = <<>>

\* C23 witness: "Nucleus 1H", "eta = 0.5" (no e**2qQ yet: nothing stored),
\* "e**2qQ = 1.0 MHz", "e**2qQ = -2.5 MHz", "eta = 0.0" (stored with 2.5),
\* "eta = 0.5" (ignored).
C23_Witness ==
    /\ content = << OrcaLine(1, FALSE, <<>>, <<>>, <<>>), EtaLine(Tok(FALSE, 0, 5)),
                    EqQLine(Tok(FALSE, 1, 0)), EqQLine(Tok(TRUE, 2, 5)),
                    EtaLine(Tok(FALSE, 0, 0)), EtaLine(Tok(FALSE, 0, 5)) >>
    /\ efg_values = (1 :> <<25, 0>>)
    /\ current_nucleus = None

\* ------------------------------------------------------------------------
\* process_hydride_csv
\* ------------------------------------------------------------------------

\* Most rows of the tables given to process_hydride_csv.
MaxScalarRows == 2

\* Line 91: the columns the function fills.
ScalarCols == <<"Hydrides - mu1H", "Hydrides - mu2H", "Hydrides - mu3H", "H2_coord">>

\* Mutant of PairCols: with include_eta, pairs in every column.
PairColsAll == {ScalarCols[k] : k \in 1..Len(ScalarCols)}

\* Line 102: the columns that hold pairs when include_eta is set.
PairCols == {"Hydrides - mu2H", "Hydrides - mu3H"}

RECURSIVE NatText(_)
NatText(n) == IF n < 10 THEN DigitText(n) ELSE NatText(n \div 10) \o DigitText(n % 10)

\* f"{v:.6f}" of a value given in tenths.
FixedTenths(t) ==
    (IF t < 0 THEN "-" ELSE "") \o NatText(Abs(t) \div 10) \o "."
        \o DigitText(Abs(t) % 10) \o "00000"

\* Lines 96-101: the index lists of the entries of a cell.
ScalarEntries(cell) == Split(cell, Separator(cell))

\* Line 101 succeeds on every entry: int() takes every part.
Parsable(cell) ==
    \A e \in 1..Len(ScalarEntries(cell)) :
        \A k \in 1..Len(Split(ScalarEntries(cell)[e], ",")) :
            IsIntText(Split(ScalarEntries(cell)[e], ",")[k])

\* Mutant of ScalarPiece: the index convention of the orientation pass, get(i).
ScalarPieceSame(efg_map, i, paired) ==
    IF i \in DOMAIN efg_map
    THEN IF paired
         THEN "(" \o FixedTenths(efg_map[i][1]) \o "," \o FixedTenths(efg_map[i][2]) \o ")"
         ELSE FixedTenths(efg_map[i][1])
    ELSE IF paired THEN "(N/A,N/A)" ELSE "N/A"

\* Lines 106-110 and 116-120: the piece of one index.
ScalarPiece(efg_map, i, paired) ==
    IF (i - 1) \in DOMAIN efg_map
    THEN IF paired
         THEN "(" \o FixedTenths(efg_map[i - 1][1]) \o "," \o FixedTenths(efg_map[i - 1][2]) \o ")"
         ELSE FixedTenths(efg_map[i - 1][1])
    ELSE IF paired THEN "(N/A,N/A)" ELSE "N/A"

\* Lines 96-123: the text stored for a cell.
ScalarCell(cell, efg_map, paired) ==
    LET entries == ScalarEntries(cell)
        out_entries ==
            [e \in 1..Len(entries) |->
                LET idxs == Indices(entries[e])
                IN  Join([k \in 1..Len(idxs) |-> ScalarPiece(efg_map, idxs[k], paired)], ",")]
    IN  Join(out_entries, Separator(cell))

\* Lines 91-123: the output row of a row whose file was read.
ScalarRowOutput(out_row, in_row, efg_map, eta) ==
    [c \in DOMAIN out_row |->
        IF c \in PairColsAll /\ in_row[c] # NaN
        THEN ScalarCell(in_row[c], efg_map, eta /\ c \in PairCols)
        ELSE out_row[c]]

\* "Nucleus 0H", "Raw EFG matrix", the rows of diag(1, 2, -5),
\* "e**2qQ = -2.5 MHz", "eta = 0.5", "Nucleus 1H", "Raw EFG matrix", the rows
\* of diag(-5, 1, 2), "e**2qQ = 1.0 MHz", "eta = 0.0".
FileBoth ==
    FileH0
    \o << EqQLine(Tok(TRUE, 2, 5)), EtaLine(Tok(FALSE, 0, 5)),
          Line(1, FALSE, <<>>), RawLine,
          NumRow(Tok(TRUE, 5, 0), Tok(FALSE, 0, 0), Tok(FALSE, 0, 0)),
          NumRow(Tok(FALSE, 0, 0), Tok(FALSE, 1, 0), Tok(FALSE, 0, 0)),
          NumRow(Tok(FALSE, 0, 0), Tok(FALSE, 0, 0), Tok(FALSE, 2, 0)),
          EqQLine(Tok(FALSE, 1, 0)), EtaLine(Tok(FALSE, 0, 0)) >>

\* The ORCA folders of the scalar pass: no file, an unreadable file or a file
\* with two hydrogen nuclei for "a.xyz".
ScalarFolders ==
    { [name \in {"a_input.inp.out"} |-> f] : f \in {NoFile, Unreadable, Readable(FileBoth)} }

\* A row of the table.
ScalarRow(name, mu1, mu2, mu3, h2) ==
    [c \in {"Filename"} \cup PairColsAll |->
        IF c = "Filename" THEN name
        ELSE IF c = "Hydrides - mu1H" THEN mu1
        ELSE IF c = "Hydrides - mu2H" THEN mu2
        ELSE IF c = "Hydrides - mu3H" THEN mu3 ELSE h2]

\* The rows of the tables: cells with and without group separator, a group
\* of two indices, cells with a single index, an empty entry ("1;"), missing
\* cells.
ScalarRows ==
    { ScalarRow(name, p[1], p[2], p[3], p[4]) :
        name \in {"a.xyz", NaN},
        p \in { <<"1,2", "0,1;2", "2,1", "1,2">>,
                <<NaN, "1", NaN, NaN>>,
                <<"1,2", NaN, "1;", NaN>>,
                <<"1", "0;1", "2", "2">>,
                <<NaN, NaN, NaN, NaN>> } }

\* The table without the column col.
DropColumn(df, col) == [r \in 1..Len(df) |-> [c \in (DOMAIN df[r]) \ {col} |-> df[r][c]]]

\* The tables: up to MaxScalarRows rows, all columns or no column 'H2_coord'.
ScalarTables ==
    LET full == UNION {[1..n -> ScalarRows] : n \in 0..MaxScalarRows}
    IN  full \cup {DropColumn(t, "H2_coord") : t \in full}

InitScalar ==
    /\ df_in \in ScalarTables
    /\ df_out = df_in
    /\ include_eta \in BOOLEAN
    /\ folder \in ScalarFolders
    /\ idx = 0
    /\ ppc = "loop"
    /\ efg_csv = <<>>
    /\ input_data = <<>> /\ output_data = <<>> /\ entry_orientations = <<>>
    /\ calls = {} /\ dpc = "idle" /\ csv = <<>>

\* The row the loop of process_hydride_csv is at.
ScalarAt == ppc = "loop" /\ idx < Len(df_in)

\* Lines 91-101 raise on the row: a column of line 91 is absent (KeyError), a
\* cell of a numeric column is tested with 'in' (TypeError), or a part of a
\* cell is no integer (ValueError).
BadCell(df, r) ==
    \E k \in 1..Len(ScalarCols) :
        IF ScalarCols[k] \notin DOMAIN df[r] THEN TRUE
        ELSE IF df[r][ScalarCols[k]] = NaN THEN FALSE
        ELSE IF NumericColumn(df, ScalarCols[k]) THEN TRUE
        ELSE ~Parsable(df[r][ScalarCols[k]])

\* Lines 81-83.
ScalarRowNoName ==
    /\ ScalarAt
    /\ df_in[idx + 1]["Filename"] = NaN
    /\ idx' = idx + 1
    /\ UNCHANGED <<df_in, df_out, include_eta, ppc, efg_csv>>
    /\ UNCHANGED <<input_data, folder, output_data, entry_orientations, calls, dpc, csv>>
    /\ UNCHANGED <<scanVars, orientVars, formatVars, filesVars, chemVars, eqVars, fqVars>>

\* Lines 84-87.
ScalarRowNoFile ==
    /\ ScalarAt
    /\ df_in[idx + 1]["Filename"] # NaN
    /\ ~folder[OrcaFile(df_in[idx + 1]["Filename"])].exists
    /\ idx' = idx + 1
    /\ UNCHANGED <<df_in, df_out, include_eta, ppc, efg_csv>>
    /\ UNCHANGED <<input_data, folder, output_data, entry_orientations, calls, dpc, csv>>
    /\ UNCHANGED <<scanVars, orientVars, formatVars, filesVars, chemVars, eqVars, fqVars>>

\* Lines 89 and 36, or 91-101: open() raises on the file, or a cell raises;
\* nothing catches the exception, the function is left and its tables are lost.
ScalarRowRaise ==
    /\ ScalarAt
    /\ df_in[idx + 1]["Filename"] # NaN
    /\ folder[OrcaFile(df_in[idx + 1]["Filename"])].exists
    /\ \/ ~folder[OrcaFile(df_in[idx + 1]["Filename"])].readable
       \/ BadCell(df_in, idx + 1)
    /\ ppc' = "raised"
    /\ UNCHANGED <<df_in, df_out, include_eta, efg_csv>>
    /\ UNCHANGED driverVars
    /\ UNCHANGED <<scanVars, orientVars, formatVars, filesVars, chemVars, eqVars, fqVars>>

\* Lines 89-123: the row of a readable file.
ScalarRowProcess ==
    /\ ScalarAt
    /\ df_in[idx + 1]["Filename"] # NaN
    /\ folder[OrcaFile(df_in[idx + 1]["Filename"])].readable
    /\ ~BadCell(df_in, idx + 1)
    /\ LET efg_map == ExtractEqQAndEtaValues(folder[OrcaFile(df_in[idx + 1]["Filename"])].lines)
       IN  df_out' = [df_out EXCEPT
                        ![idx + 1] = ScalarRowOutput(@, df_in[idx + 1], efg_map, include_eta)]
    /\ idx' = idx + 1
    /\ UNCHANGED <<df_in, include_eta, ppc, efg_csv>>
    /\ UNCHANGED <<input_data, folder, output_data, entry_orientations, calls, dpc, csv>>
    /\ UNCHANGED <<scanVars, orientVars, formatVars, filesVars, chemVars, eqVars, fqVars>>

\* Line 125: the loop is over, the table is written.
ScalarWrite ==
    /\ ppc = "loop"
    /\ idx = Len(df_in)
    /\ efg_csv' = df_out
    /\ ppc' = "written"
    /\ UNCHANGED <<df_in, df_out, include_eta>>
    /\ UNCHANGED driverVars
    /\ UNCHANGED <<scanVars, orientVars, formatVars, filesVars, chemVars, eqVars, fqVars>>

InitScalarSpec ==
    /\ InitScan /\ IdleOrient /\ InitScalar
    /\ IdleFormat /\ IdleFiles /\ IdleChem /\ InitEq /\ IdleFq

NextScalar ==
    ScalarRowNoName \/ ScalarRowNoFile \/ ScalarRowRaise \/ ScalarRowProcess \/ ScalarWrite

\* process_hydride_csv on every table, every folder and both values of
\* include_eta.
SpecScalar == InitScalarSpec /\ [][NextScalar]_vars

\* ------------------------------------------------------------------------
\* Claims about process_hydride_csv
\* ------------------------------------------------------------------------

\* Row r was filled: it is behind the loop, it has a name and its file was read.
Filled(r) ==
    /\ r <= idx
    /\ df_in[r]["Filename"] # NaN
    /\ folder[OrcaFile(df_in[r]["Filename"])].readable

\* The texts of a cell with the groups of the index cell, every index
\* replaced by one of the texts T.
TextsLike(cell, T) ==
    LET entries == ScalarEntries(cell)
        n == [e \in 1..Len(entries) |-> Len(Split(entries[e], ","))]
    IN  { Join([e \in 1..Len(entries) |-> Join(SubSeq(ch[e], 1, n[e]), ",")], Separator(cell)) :
            ch \in [1..Len(entries) -> [1..2 -> T]] }

\* C22: the include_eta switch.  In every filled row, a cell of
\* 'Hydrides - mu2H' or 'Hydrides - mu3H' holds, when include_eta is set, one
\* '(e2qQ,eta)' pair or '(N/A,N/A)' per index; every other filled cell of the
\* four columns, and every filled cell when include_eta is not set, holds
\* one e**2qQ value or 'N/A' per index.
C22_IncludeEta ==
    ppc \in {"loop", "written"} =>
        \A r \in 1..Len(df_in) : Filled(r) =>
            \A col \in {"Hydrides - mu1H", "Hydrides - mu2H", "Hydrides - mu3H", "H2_coord"} :
                df_in[r][col] # NaN =>
                    df_out[r][col] \in
                        TextsLike(df_in[r][col],
                            IF include_eta /\ col \in {"Hydrides - mu2H", "Hydrides - mu3H"}
                            THEN {"(N/A,N/A)", "(2.500000,0.500000)", "(1.000000,0.000000)"}
                            ELSE {"N/A", "2.500000", "1.000000"})

\* C22 witness: with include_eta set, a written table whose first row holds
\* pairs for the cell "0,1;2" of 'Hydrides - mu2H' and plain values for the
\* cell "1,2" of 'H2_coord'.
C22_Witness ==
    /\ ppc = "written" /\ include_eta
    /\ Len(df_in) = 2 /\ Filled(1) /\ Filled(2)
    /\ df_in[1]["Hydrides - mu2H"] = "0,1;2"
    /\ efg_csv[1]["Hydrides - mu2H"] = "(N/A,N/A),(2.500000,0.500000);(1.000000,0.000000)"
    /\ efg_csv[1]["Hydrides - mu3H"] = "(1.000000,0.000000),(2.500000,0.500000)"
    /\ efg_csv[1]["H2_coord"] = "2.500000,1.000000"
    /\ efg_csv[1]["Hydrides - mu1H"] = "2.500000,1.000000"

\* ------------------------------------------------------------------------
\* The script extract_EFG_hydrides.py: the two passes in their order
\* ------------------------------------------------------------------------

\* The rows of the side-input table of the script runs: cells "1,2", an
\* empty entry ("1;"), missing cells.
ScriptRows ==
    { ScalarRow(name, p[1], p[2], p[3], p[4]) :
        name \in {"a.xyz", NaN},
        p \in { <<"1,2", NaN, NaN, "1,2">>,
                <<"1,2", NaN, "1;", NaN>>,
                <<NaN, NaN, NaN, NaN>> } }

\* The side-input tables: up to MaxScalarRows rows, all columns or no column
\* 'H2_coord'.
ScriptTables ==
    LET full == UNION {[1..n -> ScriptRows] : n \in 0..MaxScalarRows}
    IN  full \cup {DropColumn(t, "H2_coord") : t \in full}

\* The module is loaded: nothing has run, the folder is as it is.
InitScript ==
    /\ df_in = <<>> /\ df_out = <<>> /\ include_eta = FALSE
    /\ ppc = "start" /\ efg_csv = <<>>
    /\ folder \in ScalarFolders
    /\ idx = 0
    /\ input_data = <<>> /\ output_data = <<>> /\ entry_orientations = <<>>
    /\ calls = {} /\ dpc = "idle" /\ csv = <<>>

\* Lines 129-134 and 77-78: the call of process_hydride_csv at the top level
\* of the module, with include_eta = False; the side-input is read.
ScalarRead ==
    /\ ppc = "start"
    /\ \E t \in ScriptTables : df_in' = t /\ df_out' = t
    /\ ppc' = "loop"
    /\ UNCHANGED <<include_eta, efg_csv>>
    /\ UNCHANGED driverVars
    /\ UNCHANGED <<scanVars, orientVars, formatVars, filesVars, chemVars, eqVars, fqVars>>

\* Line 77: pd.read_csv raises (the side-input cannot be opened).
ScalarReadFails ==
    /\ ppc = "start"
    /\ ppc' = "raised"
    /\ UNCHANGED <<df_in, df_out, include_eta, efg_csv>>
    /\ UNCHANGED driverVars
    /\ UNCHANGED <<scanVars, orientVars, formatVars, filesVars, chemVars, eqVars, fqVars>>

\* Mutant of ScalarDone: the statements after line 134 run after an exception
\* of the call as well.
ScalarDoneOrRaised == ppc \in {"written", "raised"}

\* Line 134 is passed: the call of process_hydride_csv has returned.
ScalarDone == ppc = "written"

\* Lines 136-337 and 276-282: the rest of the module is executed, the
\* functions are defined, and under __main__ the orientation pass starts: it
\* reads the side-input again and prepares its output table.
MainStart ==
    /\ ScalarDone
    /\ dpc = "idle"
    /\ input_data' = df_in
    /\ output_data' = NewOutput(df_in)
    /\ entry_orientations' = [r \in 1..Len(df_in) |-> EmptyDict]
    /\ idx' = 0
    /\ dpc' = "loop"
    /\ UNCHANGED <<folder, calls, csv>>
    /\ UNCHANGED <<scanVars, orientVars, formatVars, filesVars, chemVars, moreVars>>

InitScriptSpec ==
    /\ InitScan /\ IdleOrient /\ InitScript
    /\ IdleFormat /\ IdleFiles /\ IdleChem /\ InitEq /\ IdleFq

NextScript ==
    \/ ScalarRead \/ ScalarReadFails
    \/ ScalarRowNoName \/ ScalarRowNoFile \/ ScalarRowRaise \/ ScalarRowProcess \/ ScalarWrite
    \/ MainStart
    \/ RowNoName \/ RowNoFile \/ RowProcess \/ WriteCsv

\* The script on every side-input table and every folder.
SpecScript == InitScriptSpec /\ [][NextScript]_vars

\* C29: order of the two passes.  The orientation pass does nothing (no
\* table read, no call of its functions, no output) until the scalar pass has
\* consumed every row of the side-input and written its output; once the
\* scalar pass has raised, the orientation pass never starts and no
\* orientation table is written.
C29_PassOrder ==
    /\ [](dpc # "idle" => ppc = "written" /\ efg_csv = df_out /\ Len(efg_csv) = Len(df_in))
    /\ [](ppc # "written" =>
            /\ dpc = "idle" /\ input_data = <<>> /\ output_data = <<>>
            /\ calls = {} /\ csv = <<>>)
    /\ [][dpc = "idle" /\ dpc' # "idle" => ppc = "written" /\ idx = Len(df_in)]_vars
    /\ [](ppc = "raised" => [](ppc = "raised" /\ dpc = "idle" /\ csv = <<>>))

\* C29 witness: the scalar pass filled the first row and raised on the empty
\* entry "1;" of the second; the orientation pass has not started.
C29_Witness ==
    /\ ppc = "raised"
    /\ idx = 1
    /\ df_out[1]["Hydrides - mu1H"] = "2.500000,1.000000"
    /\ df_in[2]["Hydrides - mu3H"] = "1;"
    /\ dpc = "idle" /\ csv = <<>> /\ efg_csv = <<>>

\* The matrices and the pairs recorded in the file under each nucleus marker.
BothMatrices == ExtractRawEfgMatrices(FileBoth)
BothValues == ExtractEqQAndEtaValues(FileBoth)

\* The orientation texts of the matrix recorded under nucleus marker n, for
\* every decomposition the solver may return.
TextsOfNucleus(n) ==
    { FormatOrientationOutput(CanonicalOrientation(out[1], out[2])) : out \in Eigh(BothMatrices[n]) }

TextsOf0 == TextsOfNucleus(0)
TextsOf1 == TextsOfNucleus(1)

\* Row r was filled by both passes.
FilledByBoth(r) ==
    /\ ppc = "written" /\ dpc \in {"loop", "written"}
    /\ r <= idx
    /\ input_data[r]["Filename"] # NaN
    /\ folder[OrcaFile(input_data[r]["Filename"])].readable

\* C26: index convention of the two passes.  For every row filled by both
\* passes and every index i of its cell 'Hydrides - mu1H', the scalar pass
\* reports the e**2qQ recorded under nucleus marker i - 1 ('N/A' when there
\* is no such marker) and the orientation pass reports an orientation of the
\* matrix recorded under nucleus marker i ('N/A' when there is no such
\* marker).
C26_IndexConvention ==
    \A r \in 1..Len(input_data) :
        (FilledByBoth(r) /\ input_data[r]["Hydrides - mu1H"] # NaN) =>
            LET cell == input_data[r]["Hydrides - mu1H"]
                scalar == Split(efg_csv[r]["Hydrides - mu1H"], ",")
                orient == entry_orientations[r]["Hydrides - mu1H"]
            IN  \A e \in 1..Len(Entries(cell)) :
                    LET i == Indices(Entries(cell)[e])[1]
                    IN  /\ scalar[e] = IF (i - 1) \in DOMAIN BothValues
                                       THEN FixedTenths(BothValues[i - 1][1])
                                       ELSE "N/A"
                        /\ orient[e][1] \in
                              (IF i = 0 THEN TextsOf0
                               ELSE IF i = 1 THEN TextsOf1 ELSE {"N/A"})

\* C26 witness: the cell "1,2" of a row filled by both passes: the scalar
\* pass reports 2.5 MHz, recorded under marker 0, and 1.0 MHz, recorded under
\* marker 1; the orientation pass reports a frame of the matrix of marker 1,
\* whose Z lies on the first axis, and 'N/A'.
C26_Witness ==
    /\ dpc = "written"
    /\ Len(input_data) >= 1 /\ FilledByBoth(1)
    /\ input_data[1]["Hydrides - mu1H"] = "1,2"
    /\ efg_csv[1]["Hydrides - mu1H"] = "2.500000,1.000000"
    /\ BothValues = (0 :> <<25, 5>> @@ 1 :> <<10, 0>>)
    /\ csv[1]["Hydrides - mu1H_orientations"]
          = "X(0.000000,1.000000,0.000000);Y(0.000000,0.000000,1.000000);Z(1.000000,0.000000,0.000000),N/A"
    /\ csv[1]["Hydrides - mu1H_orientations"] \notin {t \o ",N/A" : t \in TextsOf0}

\* ------------------------------------------------------------------------
\* extract_hydrid_FQ.py: extract_best_mode_for_atom
\* ------------------------------------------------------------------------

\* Most modes (columns of the displacement matrix).
MaxModes == 3

\* Lines 148-149, in cm^-1.
MIN_FREQ == 800
MAX_FREQ == 2700

\* The displacements of one atom in one mode.
Displacements == {<<0, 0, 0>>, <<1, 0, 0>>, <<-1, 1, 1>>}

\* The displacement matrix of two atoms (six rows) whose first atom moves by
\* d[m] in mode m and whose second atom moves by d[n + 1 - m].
MatrixOfModes(d) ==
    [r \in 1..6 |->
        [m \in 1..Len(d) |->
            IF r <= 3 THEN d[m][r] ELSE d[Len(d) + 1 - m][r - 3]]]

\* The matrices and the frequencies given to the function.
Matrices == {MatrixOfModes(d) : d \in UNION {[1..n -> Displacements] : n \in 1..MaxModes}}
FreqValues == {0, 800, 2700, 2701}

\* Line 158: the rows of matrix[start_row:start_row+3, :], a slice that is
\* cut at the end of the matrix.
BlockRows(m, atom) == {r \in 1..Len(m) : (atom - 1) * 3 < r /\ r <= (atom - 1) * 3 + 3}

RECURSIVE SumSquares(_, _, _)
SumSquares(m, rs, col) ==
    IF rs = {} THEN 0
    ELSE LET r == CHOOSE x \in rs : TRUE
         IN  m[r][col] * m[r][col] + SumSquares(m, rs \ {r}, col)

\* Line 159: amps = np.sum(block**2, axis=0).
Amps(m, atom) == [col \in 1..Len(m[1]) |-> SumSquares(m, BlockRows(m, atom), col)]

\* Line 162: np.argsort(amps)[::-1].  argsort may order equal amplitudes
\* either way, so every order of the modes by descending amplitude.
Rankings(amps) ==
    { p \in [1..Len(amps) -> 1..Len(amps)] :
        /\ \A i \in 1..Len(amps) : \A j \in 1..Len(amps) : i # j => p[i] # p[j]
        /\ \A k \in 1..(Len(amps) - 1) : amps[p[k]] >= amps[p[k + 1]] }

\* Line 167.
InRange(freq_val) == MIN_FREQ <= freq_val /\ freq_val <= MAX_FREQ

\* Mutant of BestMode: the top mode whatever its frequency.
BestModeTop(fs, order) == fs[order[1]]

\* Lines 165-172: the first mode of the order within the range, else the first.
BestMode(fs, order) ==
    IF \E k \in 1..Len(order) : InRange(fs[order[k]])
    THEN fs[order[Min({k \in 1..Len(order) : InRange(fs[order[k]])})]]
    ELSE fs[order[1]]

InitBest ==
    /\ matrix \in Matrices
    /\ freqs \in UNION {[1..n -> FreqValues] : n \in 1..MaxModes}
    /\ Len(freqs) = Len(matrix[1])
    /\ atom_number \in 1..3
    /\ sorted_idx = <<>>
    /\ best = 0
    /\ bpc = "call"

\* Lines 157-172.
BestCall ==
    /\ bpc = "call"
    /\ \E order \in Rankings(Amps(matrix, atom_number)) :
         /\ sorted_idx' = order
         /\ best' = BestMode(freqs, order)
    /\ bpc' = "return"
    /\ UNCHANGED <<matrix, freqs, atom_number>>
    /\ UNCHANGED <<scanVars, orientVars, driverVars, formatVars, filesVars, chemVars>>
    /\ UNCHANGED <<eqVars, scalarVars, vibVars>>

InitBestSpec ==
    /\ InitScan /\ IdleOrient /\ IdleDriver
    /\ IdleFormat /\ IdleFiles /\ IdleChem /\ InitEq /\ IdleScalar
    /\ InitBest /\ IdleVib

NextBest == BestCall

\* extract_best_mode_for_atom on every matrix, frequency list and atom.
SpecBest == InitBestSpec /\ [][NextBest]_vars

\* The squared displacement of the atom's three rows in mode m.
AmpOf(m) ==
    matrix[3 * atom_number - 2][m] * matrix[3 * atom_number - 2][m]
      + matrix[3 * atom_number - 1][m] * matrix[3 * atom_number - 1][m]
      + matrix[3 * atom_number][m] * matrix[3 * atom_number][m]

\* The modes whose frequency lies in [800, 2700].
ModesInRange == {m \in 1..Len(freqs) : 800 <= freqs[m] /\ freqs[m] <= 2700}

\* C21: best mode of an atom.  For an atom of the matrix, the modes are
\* ranked by descending squared displacement of the atom's three rows; the
\* result is the frequency of the highest-ranked mode within [800, 2700],
\* whose amplitude no other mode of the range exceeds, and when no mode is in
\* the range it is the frequency of the highest-ranked mode, whose amplitude
\* no mode exceeds.
C21_BestMode ==
    (bpc = "return" /\ 3 * atom_number <= Len(matrix)) =>
        /\ \A k \in 1..(Len(sorted_idx) - 1) :
              AmpOf(sorted_idx[k]) >= AmpOf(sorted_idx[k + 1])
        /\ {sorted_idx[k] : k \in 1..Len(sorted_idx)} = 1..Len(freqs)
        /\ IF ModesInRange # {}
           THEN \E k \in 1..Len(sorted_idx) :
                   /\ sorted_idx[k] \in ModesInRange
                   /\ \A j \in 1..(k - 1) : sorted_idx[j] \notin ModesInRange
                   /\ best = freqs[sorted_idx[k]]
                   /\ \A m \in ModesInRange : AmpOf(sorted_idx[k]) >= AmpOf(m)
           ELSE /\ best = freqs[sorted_idx[1]]
                /\ \A m \in 1..Len(freqs) : AmpOf(sorted_idx[1]) >= AmpOf(m)

\* C21 witness: three modes of strictly descending rank for atom 2; the top
\* mode lies above the range (2701), the second on its lower edge (800) and
\* is returned, the third inside the range with a smaller amplitude.
C21_Witness ==
    /\ bpc = "return" /\ atom_number = 2
    /\ Len(freqs) = 3
    /\ AmpOf(sorted_idx[1]) > AmpOf(sorted_idx[2])
    /\ AmpOf(sorted_idx[2]) > AmpOf(sorted_idx[3])
    /\ freqs[sorted_idx[1]] = 2701
    /\ freqs[sorted_idx[2]] = 800
    /\ freqs[sorted_idx[3]] = 2700
    /\ best = 800

\* ------------------------------------------------------------------------
\* extract_hydrid_FQ.py: parse_hydride_field, process_row and the script
\* ------------------------------------------------------------------------

\* Most rows of the table the script reads.
MaxVibRows == 2

\* Lines 212-216.
vib_hydride_cols == <<"Hydrides - mu1H", "Hydrides - mu2H", "Hydrides - mu3H">>

\* str.strip() on blanks.
RECURSIVE StripText(_)
StripText(s) ==
    IF s = "" THEN ""
    ELSE IF SubSeq(s, 1, 1) = " " THEN StripText(SubSeq(s, 2, Len(s)))
    ELSE IF SubSeq(s, Len(s), Len(s)) = " " THEN StripText(SubSeq(s, 1, Len(s) - 1))
    ELSE s

\* str.startswith and str.endswith.
StartsWith(s, prefix) == Len(prefix) <= Len(s) /\ SubSeq(s, 1, Len(prefix)) = prefix
EndsWith(s, suffix) ==
    Len(suffix) <= Len(s) /\ SubSeq(s, Len(s) - Len(suffix) + 1, Len(s)) = suffix

\* Lines 130-132: a field with no indices.
NoIndices(field) == StripText(field) = "" \/ LowerText(StripText(field)) = "n/a"

\* Lines 135-138.
GroupSep(field) == IF Contains(StripText(field), ";") THEN ";" ELSE ","

\* Lines 140-144: the groups of a field that has indices, each a list of
\* atom numbers.
HydrideGroups(field) ==
    LET group_strs == SelectSeq(Split(StripText(field), GroupSep(field)),
                                LAMBDA grp : StripText(grp) # "")
    IN  [g \in 1..Len(group_strs) |->
            LET parts == SelectSeq(Split(StripText(group_strs[g]), ","),
                                   LAMBDA p : StripText(p) # "")
            IN  [k \in 1..Len(parts) |-> IntOf(StripText(parts[k]))]]

\* f"{v:.2f}" of a whole frequency.
FixedHundredths(v) == NatText(v) \o ".00"

\* A file load_vibrational_data reads: two atoms, two modes.
VibData == [matrix |-> MatrixOfModes(<<<<1, 0, 0>>, <<-1, 1, 1>>>>), freqs |-> <<1500, 900>>]

\* A file in which load_vibrational_data finds no data and calls sys.exit.
NoVibData == [matrix |-> <<>>, freqs |-> <<>>]

\* No file of that name.
Absent == [matrix |-> <<>>, freqs |-> <<0>>]

\* The file names of the folder and the folders.
VibNames == {"a.out", "ab.out", "a.txt"}
VibFolders ==
    { f \in [VibNames -> {Absent, NoVibData, VibData}] :
        /\ f["a.txt"] = VibData
        /\ f["ab.out"] # VibData }

\* os.listdir(out_folder).
ListDir(f) == {n \in DOMAIN f : f[n] # Absent}

\* Lines 180-184: the base name of a csv_row.
BaseOf(csv_row) ==
    LET fname == StripText(csv_row["Filename"])
        named == IF EndsWith(LowerText(fname), ".xyz") THEN fname ELSE fname \o ".xyz"
    IN  SubSeq(named, 1, Len(named) - 4)

\* Lines 185-186.
Candidates(csv_row, f) == {n \in ListDir(f) : StartsWith(n, BaseOf(csv_row)) /\ EndsWith(n, ".out")}

\* Line 197: what a call of extract_best_mode_for_atom may return, the
\* first in range of some ranking.
BestFreqs(data, atom) ==
    {BestMode(data.freqs, o) : o \in Rankings(Amps(data.matrix, atom))}

\* Lines 197-199: the texts of a group, one frequency per atom.
GroupOutputs(data, group) ==
    { Join([k \in 1..Len(group) |-> FixedHundredths(c[k])], ",") :
        c \in { c \in [1..Len(group) -> {data.freqs[m] : m \in 1..Len(data.freqs)}] :
                  \A k \in 1..Len(group) : c[k] \in BestFreqs(data, group[k]) } }

\* Lines 191-200: the new values of a cell.
NewVals(data, field) ==
    IF NoIndices(field) THEN {field}
    ELSE LET parsed == HydrideGroups(field)
         IN  { Join(gs, GroupSep(field)) :
                 gs \in { c \in [1..Len(parsed) -> UNION {GroupOutputs(data, parsed[g]) : g \in 1..Len(parsed)}] :
                            \A g \in 1..Len(parsed) : c[g] \in GroupOutputs(data, parsed[g]) } }

\* Line 205: process_row found no file.
NoResult == [na |-> TRUE, vals |-> <<>>]

\* Lines 187-202: what process_row may return from a file with data.
ProcessRow(csv_row, data) ==
    { [na |-> FALSE, vals |-> v] :
        v \in { c \in [1..Len(vib_hydride_cols) ->
                         UNION {NewVals(data, csv_row[vib_hydride_cols[k]]) : k \in 1..Len(vib_hydride_cols)}] :
                  \A k \in 1..Len(vib_hydride_cols) :
                      c[k] \in NewVals(data, csv_row[vib_hydride_cols[k]]) } }

\* Mutant of AfterRow: a csv_row with no result loses its index cells.
AfterRowCleared(rs, i, new_values) ==
    [rs EXCEPT ![i] =
        [col \in DOMAIN rs[i] |->
            IF \E k \in 1..Len(vib_hydride_cols) : vib_hydride_cols[k] = col
            THEN IF new_values.na THEN "n/a"
                 ELSE new_values.vals[CHOOSE k \in 1..Len(vib_hydride_cols) : vib_hydride_cols[k] = col]
            ELSE rs[i][col]]]

\* Lines 228-233: csv_row = 'n/a' binds the loop variable only, csv_row[col] = val
\* writes into the csv_row of the list.
AfterRow(rs, i, new_values) ==
    IF new_values.na THEN rs
    ELSE [rs EXCEPT ![i] =
            [col \in DOMAIN rs[i] |->
                IF \E k \in 1..Len(vib_hydride_cols) : vib_hydride_cols[k] = col
                THEN new_values.vals[CHOOSE k \in 1..Len(vib_hydride_cols) : vib_hydride_cols[k] = col]
                ELSE rs[i][col]]]

\* A csv_row of the table.
VibRow(name, cells) ==
    [Filename |-> name] @@ [col \in {vib_hydride_cols[k] : k \in 1..3} |->
        cells[CHOOSE k \in 1..3 : vib_hydride_cols[k] = col]]

VibRows ==
    { VibRow(name, cells) :
        name \in {"a.xyz", "b", ""},
        cells \in { <<"1", "1,2", "1;2">>,
                    <<"n/a", "", "1,2;1">>,
                    <<"2;", " 1 , 2", "N/A">> } }

VibTables == UNION {[1..n -> VibRows] : n \in 1..MaxVibRows}

\* Lines 209-222: the table is read.
InitVib ==
    /\ input_csv \in VibTables
    /\ csv_rows = input_csv
    /\ out_folder \in VibFolders
    /\ ri = 0
    /\ vib_csv = <<>>
    /\ vpc = "loop"

\* Lines 225-229 with line 205: no file matches the csv_row.
VibRowNoFile ==
    /\ vpc = "loop" /\ ri < Len(csv_rows)
    /\ Candidates(csv_rows[ri + 1], out_folder) = {}
    /\ csv_rows' = AfterRow(csv_rows, ri + 1, NoResult)
    /\ ri' = ri + 1
    /\ UNCHANGED <<input_csv, out_folder, vib_csv, vpc>>
    /\ UNCHANGED <<scanVars, orientVars, driverVars, formatVars, filesVars, chemVars>>
    /\ UNCHANGED <<eqVars, scalarVars, bestVars>>

\* Line 188: candidates[0] has no data and load_vibrational_data exits.
VibRowExit ==
    /\ vpc = "loop" /\ ri < Len(csv_rows)
    /\ \E n \in Candidates(csv_rows[ri + 1], out_folder) : out_folder[n] = NoVibData
    /\ vpc' = "exited"
    /\ UNCHANGED <<input_csv, csv_rows, out_folder, ri, vib_csv>>
    /\ UNCHANGED <<scanVars, orientVars, driverVars, formatVars, filesVars, chemVars>>
    /\ UNCHANGED <<eqVars, scalarVars, bestVars>>

\* Lines 225-233 with lines 187-202: candidates[0], any of the candidates
\* since os.listdir gives no order, has data.
VibRowProcess ==
    /\ vpc = "loop" /\ ri < Len(csv_rows)
    /\ \E n \in Candidates(csv_rows[ri + 1], out_folder) :
         /\ out_folder[n] # NoVibData
         /\ \E new_values \in ProcessRow(csv_rows[ri + 1], out_folder[n]) :
              csv_rows' = AfterRow(csv_rows, ri + 1, new_values)
    /\ ri' = ri + 1
    /\ UNCHANGED <<input_csv, out_folder, vib_csv, vpc>>
    /\ UNCHANGED <<scanVars, orientVars, driverVars, formatVars, filesVars, chemVars>>
    /\ UNCHANGED <<eqVars, scalarVars, bestVars>>

\* Lines 235-238.
VibWrite ==
    /\ vpc = "loop" /\ ri = Len(csv_rows)
    /\ vib_csv' = csv_rows
    /\ vpc' = "written"
    /\ UNCHANGED <<input_csv, csv_rows, out_folder, ri>>
    /\ UNCHANGED <<scanVars, orientVars, driverVars, formatVars, filesVars, chemVars>>
    /\ UNCHANGED <<eqVars, scalarVars, bestVars>>

InitVibSpec ==
    /\ InitScan /\ IdleOrient /\ IdleDriver
    /\ IdleFormat /\ IdleFiles /\ IdleChem /\ InitEq /\ IdleScalar
    /\ IdleBest /\ InitVib

NextVib == VibRowNoFile \/ VibRowExit \/ VibRowProcess \/ VibWrite

\* The frequency script on every table and folder.
SpecVib == InitVibSpec /\ [][NextVib]_vars

\* Row r of the table read has a matching .out file in the folder.
Matched(r) == Candidates(input_csv[r], out_folder) # {}

\* A frequency as the script writes it: digits, a point, two digits.
IsFreqText(s) ==
    /\ Len(s) >= 4
    /\ IsIntText(SubSeq(s, 1, Len(s) - 3))
    /\ SubSeq(s, Len(s) - 2, Len(s) - 2) = "."
    /\ IsIntText(SubSeq(s, Len(s) - 1, Len(s)))

\* The written cell new has the groups of the cell old: as many groups, set
\* apart by the separator of old, and in each as many frequencies as old has
\* indices.
SameStructure(old, new) ==
    LET sep == GroupSep(old)
        olds == HydrideGroups(old)
        news == Split(new, sep)
    IN  /\ Len(news) = Len(olds)
        /\ \A g \in 1..Len(olds) :
              /\ Len(Split(news[g], ",")) = Len(olds[g])
              /\ \A k \in 1..Len(olds[g]) : IsFreqText(Split(news[g], ",")[k])
        /\ Contains(new, ";") => Contains(old, ";")

====
